---- MODULE Spec2Model ----
(***************************************************************************)
(* Model of the multi-engine search aggregator of the scrapper app         *)
(* (backend/scrapper/services.py, backend/scrapper/views.py).              *)
(*                                                                         *)
(* Spec       one search_view request: MultiEngineSearch() is constructed, *)
(*            search_sync fans the query out to one unit per validated     *)
(*            engine, the units complete in any order, the main thread     *)
(*            processes them in completion order and returns the report.   *)
(* SpecLive   Spec with the fairness of the executor and of the main thread.*)
(* SpecParse  the three provider parsers as pure functions of a document.  *)
(* SpecFetch  the fetch client (SearchEngine._make_request, get_public_ip)  *)
(*            and the operations of the disabled proxy pool                 *)
(*            (services.ProxyManager), called in any order.                 *)
(* SpecJob    runs of the proxy maintenance job (backend/scrapper/proxy.py, *)
(*            ProxyManager.update_proxy_list): two sources are fetched, the *)
(*            candidates are validated concurrently and the accepted ones   *)
(*            are upserted into the Proxy table.                            *)
(* SpecUtils  one call of SearchUtils.perform_search_if_needed               *)
(*            (backend/llm/services/search.py) on a report of search_sync.  *)
(* The async entry point MultiEngineSearch.search is an operator            *)
(* (search_async) of the request and of the providers' outcomes.            *)
(***************************************************************************)
EXTENDS Integers, Sequences, FiniteSets, TLC

VARIABLES
    pc,            \* position of the request: "start", "running", "returned" (or "raised"),
                   \* "responded"; of a parser run: "parse", "parsed"
    query,         \* the q parameter
    engines,       \* the engines argument of search_sync (a list, or NoList for None)
    save_to_db,    \* MultiEngineSearch.save_to_db
    ipify,         \* whether api.ipify.org answers during this request: "ok" or "fail"
    futures,       \* future_to_engine in submission order: [engine, state, outcome, processed]
    results_dict,  \* results_dict, a Python dict (insertion ordered)
    ip_used_dict,  \* ip_used_dict
    errors_dict,   \* errors_dict
    db,            \* rows written to the persistence sink since construction, in write order
    log,           \* the futures handled by the as_completed loop, in handling order, with the sink's behaviour
    response,      \* what search_view answered
    doc,           \* SpecParse: the document handed to a parser
    parser,        \* SpecParse: the provider whose parser runs
    parsed,        \* SpecParse: what the parser returned
    proxy_manager, \* the services.ProxyManager object: [use_proxies, proxies]
    pool_ret,      \* SpecFetch: the last proxy pool operation called and what it returned
    fetch_in,      \* SpecFetch: the last provider fetch: [engine, lookup, fetch]
    fetch_out,     \* SpecFetch: what it gave: [request (of _make_request), outcome (of search)]
    proxy_table,   \* the rows of the Proxy table, in insertion order
    jpc,           \* SpecJob: position of update_proxy_list: "idle", "validating", "done", "raised"
    parts,         \* what fetch_from_free_proxy_list and fetch_from_geonode returned in this run
    failed,        \* whether each of the two fetches met an exception in this run
    proxies,       \* fetch_all's list, the candidates of this run
    checks,        \* future_to_proxy: per candidate "running", "valid" or "rejected"
    valid_proxies, \* validate_bulk's list, in completion order
    job_ret,       \* what update_proxy_list returned: <<>> nothing yet, <<n>> the count
    before,        \* the Proxy table when this run began
    runs,          \* runs begun so far
    search_results,\* SpecUtils: what search_sync returned to perform_search_if_needed
    formatted,     \* SpecUtils: what perform_search_if_needed returned
    sync_calls     \* SpecUtils: calls of search_sync made so far

vars == <<pc, query, engines, save_to_db, ipify, futures, results_dict, ip_used_dict,
          errors_dict, db, log, response, doc, parser, parsed,
          proxy_manager, pool_ret, fetch_in, fetch_out, proxy_table,
          jpc, parts, failed, proxies, checks, valid_proxies, job_ret, before, runs,
          search_results, formatted, sync_calls>>

-----------------------------------------------------------------------------
(* Bounds of the model *)

\* longest engine list a request names (engine=... repeated in the query string)
MaxReq == 2
\* most candidate entries in a document handed to a parser under SpecParse
MaxEntries == 2
\* most rows a proxy source lists in one run of the job
MaxSrc == 1
\* most runs of the job
MaxRuns == 2

-----------------------------------------------------------------------------
(* Python values *)

\* None in a slot that otherwise holds a string
None == "None"
\* engines=None
NoList == <<"<None>">>
\* a url is a sequence of tokens; None in a url slot (an <a> without href)
NoneUrl == <<"<None>">>

\* A Python dict: a sequence of <<key, value>> pairs in insertion order.
DictHas(d, k) == \E i \in 1..Len(d) : d[i][1] = k
DictGet(d, k) == d[CHOOSE i \in 1..Len(d) : d[i][1] = k][2]
DictSet(d, k, v) ==
    IF DictHas(d, k)
    THEN [i \in 1..Len(d) |-> IF d[i][1] = k THEN <<k, v>> ELSE d[i]]
    ELSE Append(d, <<k, v>>)
DictKeys(d) == [i \in 1..Len(d) |-> d[i][1]]
KeySet(d) == {d[i][1] : i \in 1..Len(d)}

-----------------------------------------------------------------------------
(* Strings and documents *)

\* A string is a sequence of tokens; " " is whitespace. "/url?q=", "http://",
\* "https://" and "&" are the substrings the parsers look for.
StartsWith(s, tok) == Len(s) > 0 /\ s[1] = tok

\* str.strip()
RECURSIVE Strip(_)
Strip(s) ==
    IF s = <<>> THEN s
    ELSE IF s[1] = " " THEN Strip(Tail(s))
    ELSE IF s[Len(s)] = " " THEN Strip(SubSeq(s, 1, Len(s) - 1))
    ELSE s

\* str.split(sep), for a separator that is one token
RECURSIVE Split(_, _)
Split(s, sep) ==
    IF \E i \in 1..Len(s) : s[i] = sep
    THEN LET i == CHOOSE j \in 1..Len(s) :
                      s[j] = sep /\ \A k \in 1..(j - 1) : s[k] # sep
         IN <<SubSeq(s, 1, i - 1)>> \o Split(SubSeq(s, i + 1, Len(s)), sep)
    ELSE <<s>>

\* An element that select_one may or may not find: <<>> is None, <<x>> is found.
Absent == <<>>
Found(x) == <<x>>
IsFound(o) == o # <<>>

\* The candidate containers of a document (div.g, li.b_algo, .result), as the
\* parsers see them: the title element's text, the link element's href (text for
\* DuckDuckGo, NoneUrl when the <a> has no href) and the snippet element's text.
Entries ==
    { [title |-> Found(<<"T1">>), link |-> Found(<<"https://", "a.com/p">>), snippet |-> Found(<<"D1">>)],
      [title |-> Found(<<"T2">>), link |-> Found(<<"/url?q=", "https://", "b.org/x", "&", "sa=U">>), snippet |-> Absent],
      [title |-> Absent, link |-> Found(<<"https://", "a.com/p">>), snippet |-> Found(<<"D1">>)],
      [title |-> Found(<<"T1">>), link |-> Absent, snippet |-> Found(<<"D1">>)],
      [title |-> Found(<<"T1">>), link |-> Found(NoneUrl), snippet |-> Absent],
      [title |-> Found(<<" ", "T2", " ">>), link |-> Found(<<" ", "c.net/y">>), snippet |-> Found(<<"D2", " ">>)],
      [title |-> Found(<<"T3">>), link |-> Found(<<"/url?q=", "http://", "d.io">>), snippet |-> Absent],
      [title |-> Found(<<"T3">>), link |-> Found(<<"http://", "d.io", "&", "x=1">>), snippet |-> Absent] }

RECURSIVE SeqsUpTo(_, _)
SeqsUpTo(S, n) ==
    IF n = 0 THEN {<<>>}
    ELSE LET shorter == SeqsUpTo(S, n - 1)
         IN shorter \cup {Append(s, x) : s \in shorter, x \in S}

Docs == SeqsUpTo(Entries, MaxEntries)

-----------------------------------------------------------------------------
(* Provider parsers: each returns [exc, results]; exc # None is the exception *)
(* the parser raised, and then nothing is returned.                           *)

ResultItem(title, url, description, position) ==
    [title |-> title, url |-> url, description |-> description, position |-> position]

\* Faulty variant: a redirect link is kept as it is
RECURSIVE GoogleLoopKeepRedirect(_, _, _)
GoogleLoopKeepRedirect(cands, index, results) ==
    IF index >= Len(cands) THEN [exc |-> None, results |-> results]
    ELSE LET result == cands[index + 1]
         IN IF IsFound(result.title) /\ IsFound(result.link)
            THEN IF result.link[1] = NoneUrl
                 THEN [exc |-> "AttributeError: 'NoneType' object has no attribute 'startswith'",
                       results |-> <<>>]
                 ELSE GoogleLoopKeepRedirect(cands, index + 1,
                          Append(results,
                                 ResultItem(result.title[1], result.link[1],
                                            IF IsFound(result.snippet) THEN result.snippet[1] ELSE <<>>,
                                            index + 1)))
            ELSE GoogleLoopKeepRedirect(cands, index + 1, results)

RECURSIVE GoogleLoop(_, _, _)
GoogleLoop(cands, index, results) ==
    IF index >= Len(cands) THEN [exc |-> None, results |-> results]
    ELSE LET result == cands[index + 1]
             title_element == result.title
             link_element == result.link
             snippet_element == result.snippet
         IN IF IsFound(title_element) /\ IsFound(link_element)
            THEN LET title == title_element[1]
                     href == link_element[1]
                     description == IF IsFound(snippet_element) THEN snippet_element[1] ELSE <<>>
                 IN IF href = NoneUrl
                    THEN [exc |-> "AttributeError: 'NoneType' object has no attribute 'startswith'",
                          results |-> <<>>]
                    ELSE LET url == IF StartsWith(href, "/url?q=")
                                    THEN Split(Split(href, "/url?q=")[2], "&")[1]
                                    ELSE href
                         IN GoogleLoop(cands, index + 1,
                                Append(results, ResultItem(title, url, description, index + 1)))
            ELSE GoogleLoop(cands, index + 1, results)

_parse_google_results(html) == GoogleLoop(html, 0, <<>>)

RECURSIVE BingLoop(_, _, _)
BingLoop(cands, index, results) ==
    IF index >= Len(cands) THEN [exc |-> None, results |-> results]
    ELSE LET result == cands[index + 1]
             title_element == result.title
             \* "h2 a": an <a> inside the title element
             link_element == IF IsFound(result.title) THEN result.link ELSE Absent
             snippet_element == result.snippet
         IN IF IsFound(title_element) /\ IsFound(link_element)
            THEN LET title == title_element[1]
                     url == link_element[1]
                     description == IF IsFound(snippet_element) THEN snippet_element[1] ELSE <<>>
                 IN BingLoop(cands, index + 1,
                        Append(results, ResultItem(title, url, description, index + 1)))
            ELSE BingLoop(cands, index + 1, results)

_parse_bing_results(html) == BingLoop(html, 0, <<>>)

RECURSIVE DdgLoop(_, _, _)
DdgLoop(cands, index, results) ==
    IF index >= Len(cands) THEN [exc |-> None, results |-> results]
    ELSE LET result == cands[index + 1]
             title_element == result.title
             link_element == result.link
             snippet_element == result.snippet
         IN IF IsFound(title_element) /\ IsFound(link_element)
            THEN LET title == Strip(title_element[1])
                     \* the text of an element without text is the empty string
                     text == IF link_element[1] = NoneUrl THEN <<>> ELSE link_element[1]
                     stripped == Strip(text)
                     description == IF IsFound(snippet_element) THEN Strip(snippet_element[1]) ELSE <<>>
                     url == IF ~(StartsWith(stripped, "http://") \/ StartsWith(stripped, "https://"))
                            THEN <<"https://">> \o stripped
                            ELSE stripped
                 IN DdgLoop(cands, index + 1,
                        Append(results, ResultItem(title, url, description, index + 1)))
            ELSE DdgLoop(cands, index + 1, results)

_parse_ddg_results(html) == DdgLoop(html, 0, <<>>)

\* self.engines: the registered providers, in registration order
Registered == <<"google", "bing", "duckduckgo">>
RegisteredSet == {Registered[i] : i \in 1..Len(Registered)}

Parse(engine, html) ==
    CASE engine = "google" -> _parse_google_results(html)
      [] engine = "bing" -> _parse_bing_results(html)
      [] engine = "duckduckgo" -> _parse_ddg_results(html)

-----------------------------------------------------------------------------
(* Fetch client and provider search *)

\* what api.ipify.org answers when the lookup works
PublicIp == "203.0.113.7"

\* lookup: how the call to api.ipify.org ends: "ok" (status 200 with an ip field),
\* "non200", "nofield" (200 without the field), "exception"; "fail" stands for
\* any of the last three.
LookupKinds == {"ok", "non200", "nofield", "exception"}

\* Faulty variant: no default for a missing field
get_public_ipNoDefault(lookup) ==
    IF lookup = "ok" THEN PublicIp ELSE IF lookup = "nofield" THEN None ELSE "unknown"

get_public_ip(lookup) == IF lookup = "ok" THEN PublicIp ELSE "unknown"

\* the RequestExceptions of requests.get and raise_for_status: Timeout,
\* ConnectionError, HTTPError (non-2xx); "fail" stands for any of them
RequestExceptions == {"fail", "timeout", "connection", "status"}

\* what self.user_agent.random may pick for the User-Agent header
UserAgents == {"Mozilla/5.0 (Windows NT 10.0)", "Mozilla/5.0 (X11; Linux x86_64)"}

\* Faulty variant: a RequestException is not caught
_make_requestRaising(lookup, fetch, ua) ==
    LET server_ip == get_public_ip(lookup)
        ip_used == <<"direct (", server_ip, ")">>
    IN CASE fetch.kind = "raise" ->
                [exc |-> "Exception: fetch", body |-> Absent, ip_used |-> ip_used,
                 get |-> FALSE, proxies |-> Absent, user_agent |-> None]
         [] fetch.kind = "body" ->
                [exc |-> None, body |-> Found(fetch.html), ip_used |-> ip_used,
                 get |-> TRUE, proxies |-> Absent, user_agent |-> ua]
         [] fetch.kind \in RequestExceptions ->
                [exc |-> "RequestException", body |-> Absent, ip_used |-> ip_used,
                 get |-> TRUE, proxies |-> Absent, user_agent |-> ua]

\* fetch.kind: "body" (2xx, fetch.html is the document), a RequestException, or
\* "raise" (another exception, raised by the user-agent library before the GET);
\* ua is the User-Agent header picked at random. Returns [exc, body, ip_used] and,
\* of the call's effects, get (requests.get was called), proxies (the proxies it
\* was called with: none) and user_agent (the header sent).
_make_request(lookup, fetch, ua) ==
    LET server_ip == get_public_ip(lookup)
        ip_used == <<"direct (", server_ip, ")">>
    IN CASE fetch.kind = "raise" ->
                [exc |-> "Exception: fetch", body |-> Absent, ip_used |-> ip_used,
                 get |-> FALSE, proxies |-> Absent, user_agent |-> None]
         [] fetch.kind = "body" ->
                [exc |-> None, body |-> Found(fetch.html), ip_used |-> ip_used,
                 get |-> TRUE, proxies |-> Absent, user_agent |-> ua]
         [] fetch.kind \in RequestExceptions ->
                [exc |-> None, body |-> Absent, ip_used |-> ip_used,
                 get |-> TRUE, proxies |-> Absent, user_agent |-> ua]

\* Faulty variant: the page is not parsed for one of the user agents
searchByUserAgent(engine, lookup, fetch, ua) ==
    LET r == _make_request(lookup, fetch, ua)
    IN IF r.exc # None THEN [exc |-> r.exc, results |-> <<>>, ip_used |-> <<>>]
       ELSE IF ~IsFound(r.body) \/ ua = "Mozilla/5.0 (X11; Linux x86_64)"
            THEN [exc |-> None, results |-> <<>>, ip_used |-> r.ip_used]
       ELSE LET p == Parse(engine, r.body[1])
            IN IF p.exc # None THEN [exc |-> p.exc, results |-> <<>>, ip_used |-> <<>>]
               ELSE [exc |-> None, results |-> p.results, ip_used |-> r.ip_used]

\* Faulty variant: an absent body is raised as an error
searchStrict(engine, lookup, fetch, ua) ==
    LET r == _make_request(lookup, fetch, ua)
    IN IF r.exc # None THEN [exc |-> r.exc, results |-> <<>>, ip_used |-> <<>>]
       ELSE IF ~IsFound(r.body) THEN [exc |-> "no response", results |-> <<>>, ip_used |-> <<>>]
       ELSE LET p == Parse(engine, r.body[1])
            IN IF p.exc # None THEN [exc |-> p.exc, results |-> <<>>, ip_used |-> <<>>]
               ELSE [exc |-> None, results |-> p.results, ip_used |-> r.ip_used]

\* GoogleSearch.search, BingSearch.search, DuckDuckGoSearch.search: [exc, results, ip_used];
\* with exc # None nothing is returned.
Raised(exc) == [exc |-> exc, results |-> <<>>, ip_used |-> <<>>]
search(engine, lookup, fetch, ua) ==
    LET r == _make_request(lookup, fetch, ua)
    IN IF r.exc # None THEN Raised(r.exc)
       ELSE IF ~IsFound(r.body) THEN [exc |-> None, results |-> <<>>, ip_used |-> r.ip_used]
       ELSE LET p == Parse(engine, r.body[1])
            IN IF p.exc # None THEN Raised(p.exc)
               ELSE [exc |-> None, results |-> p.results, ip_used |-> r.ip_used]

\* The documents a fetch may bring back in a request: three candidates of which
\* the second has no title, and a page without candidates.
DocA ==
    << [title |-> Found(<<"T1">>), link |-> Found(<<"https://", "a.com/p">>), snippet |-> Found(<<"D1">>)],
       [title |-> Absent, link |-> Found(<<"https://", "a.com/p">>), snippet |-> Found(<<"D1">>)],
       [title |-> Found(<<"T2">>), link |-> Found(<<"/url?q=", "https://", "b.org/x", "&", "sa=U">>), snippet |-> Absent] >>
DocEmpty == <<>>
Fetches ==
    { [kind |-> "body", html |-> DocA], [kind |-> "body", html |-> DocEmpty],
      [kind |-> "fail", html |-> <<>>], [kind |-> "raise", html |-> <<>>] }
Lookups == {"ok", "fail"}

-----------------------------------------------------------------------------
(* services.ProxyManager: the proxy pool, disabled *)

\* ProxyManager.__init__
ProxyManagerInit == [use_proxies |-> FALSE, proxies |-> <<>>]

\* a row of the Proxy table (models.Proxy)
ProxyRow(ip, port, protocol, is_active, success_rate) ==
    [ip |-> ip, port |-> port, protocol |-> protocol, username |-> None, password |-> None,
     is_active |-> is_active, success_rate |-> success_rate]

_load_proxies(self) == <<>>

\* Faulty variant: the pool hands out a stored proxy
get_random_proxyStored(self) == Found(ProxyRow("198.51.100.1", 8080, "http", TRUE, 100))

\* Optional[Proxy]: Absent is None
get_random_proxy(self) == Absent
format_proxy(self, proxy) == Absent
\* returns nothing and leaves the object as it is
update_proxy_status(self, proxy, success) == self

-----------------------------------------------------------------------------
(* proxy.py: ProxyFetcher, ProxyValidator, ProxyManager.update_proxy_list *)

\* int(text): <<n>>, or Absent for the ValueError
IntOf(text) ==
    CASE text = "8080" -> Found(8080)
      [] text = "3128" -> Found(3128)
      [] OTHER -> Absent

\* str.lower()
Lower(text) ==
    CASE text = "HTTP" -> "http"
      [] text = "HTTPS" -> "https"
      [] OTHER -> text

\* a candidate, the dict both fetchers build
Candidate(ip, port, protocol) ==
    [ip |-> ip, port |-> port, protocol |-> protocol, username |-> None, password |-> None]

\* The try body of fetch_from_free_proxy_list on a page [kind, rows]; a row is
\* [ip, port, https, cols], cols its number of cells. Returns [exc, proxies].
RECURSIVE FreeProxyListRows(_, _, _)
FreeProxyListRows(rows, i, found) ==
    IF i > Len(rows) THEN [exc |-> None, proxies |-> found]
    ELSE IF rows[i].cols >= 8
         THEN IF IntOf(rows[i].port) = Absent
              THEN [exc |-> "ValueError", proxies |-> <<>>]
              ELSE FreeProxyListRows(rows, i + 1,
                       Append(found, Candidate(rows[i].ip, IntOf(rows[i].port)[1],
                                               IF rows[i].https = "yes" THEN "https" ELSE "http")))
         ELSE FreeProxyListRows(rows, i + 1, found)

FreeProxyListBody(page) ==
    CASE page.kind = "exception" -> [exc |-> "RequestException", proxies |-> <<>>]
      [] page.kind = "notable" -> [exc |-> None, proxies |-> <<>>]
      [] page.kind = "ok" -> FreeProxyListRows(page.rows, 1, <<>>)

fetch_from_free_proxy_list(page) ==
    IF FreeProxyListBody(page).exc # None THEN <<>> ELSE FreeProxyListBody(page).proxies

\* The try body of fetch_from_geonode on an answer [kind, data]; an item is
\* [ip, port, protocols], protocols Absent when the key is missing.
RECURSIVE GeonodeItems(_, _, _)
GeonodeItems(data, i, found) ==
    IF i > Len(data) THEN [exc |-> None, proxies |-> found]
    ELSE LET protocols == IF IsFound(data[i].protocols) THEN data[i].protocols[1] ELSE <<"http">>
         IN IF IntOf(data[i].port) = Absent THEN [exc |-> "ValueError", proxies |-> <<>>]
            ELSE IF protocols = <<>> THEN [exc |-> "IndexError", proxies |-> <<>>]
            ELSE GeonodeItems(data, i + 1,
                     Append(found, Candidate(data[i].ip, IntOf(data[i].port)[1],
                                             Lower(protocols[1]))))

GeonodeBody(page) ==
    CASE page.kind = "exception" -> [exc |-> "RequestException", proxies |-> <<>>]
      [] page.kind = "ok" -> GeonodeItems(page.data, 1, <<>>)

fetch_from_geonode(page) ==
    IF GeonodeBody(page).exc # None THEN <<>> ELSE GeonodeBody(page).proxies

\* Faulty variant: one source's failure empties the whole list
fetch_allFailFast(page1, page2) ==
    IF FreeProxyListBody(page1).exc # None \/ GeonodeBody(page2).exc # None THEN <<>>
    ELSE fetch_from_free_proxy_list(page1) \o fetch_from_geonode(page2)

fetch_all(page1, page2) ==
    fetch_from_free_proxy_list(page1) \o fetch_from_geonode(page2)

\* probe: how the GET through the proxy ends: "200", "non200", "exception", or
\* "raise" when the user-agent choice before the try raises. Returns [exc, is_valid].
validate(probe) ==
    CASE probe = "raise" -> [exc |-> "Exception: user agent", is_valid |-> FALSE]
      [] probe = "200" -> [exc |-> None, is_valid |-> TRUE]
      [] OTHER -> [exc |-> None, is_valid |-> FALSE]
Probes == {"200", "non200", "exception", "raise"}

\* validate_bulk, lines 120-126: what the loop does with one completed future
Completed(valid, proxy, result) ==
    IF result.exc = None /\ result.is_valid THEN Append(valid, proxy) ELSE valid

\* Faulty variant: each upsert is a snapshot, the other rows are deactivated
update_or_createSnapshot(table, proxy_data) ==
    LET others == [i \in 1..Len(table) |->
                      IF table[i].ip = proxy_data.ip /\ table[i].port = proxy_data.port
                      THEN [table[i] EXCEPT !.protocol = proxy_data.protocol,
                                            !.is_active = TRUE, !.success_rate = 100]
                      ELSE [table[i] EXCEPT !.is_active = FALSE]]
    IN IF \E i \in 1..Len(table) : table[i].ip = proxy_data.ip /\ table[i].port = proxy_data.port
       THEN others
       ELSE Append(others, ProxyRow(proxy_data.ip, proxy_data.port, proxy_data.protocol, TRUE, 100))

\* Faulty variant: a second row is created for a stored (ip, port)
update_or_createAlways(table, proxy_data) ==
    Append(table, ProxyRow(proxy_data.ip, proxy_data.port, proxy_data.protocol, TRUE, 100))

\* Faulty variant: a stored row is left as it is
update_or_createKeep(table, proxy_data) ==
    IF \E i \in 1..Len(table) : table[i].ip = proxy_data.ip /\ table[i].port = proxy_data.port
    THEN table
    ELSE Append(table, ProxyRow(proxy_data.ip, proxy_data.port, proxy_data.protocol, TRUE, 100))

\* Proxy.objects.update_or_create(ip, port, defaults=...), lines 146-156
update_or_create(table, proxy_data) ==
    IF \E i \in 1..Len(table) : table[i].ip = proxy_data.ip /\ table[i].port = proxy_data.port
    THEN [i \in 1..Len(table) |->
             IF table[i].ip = proxy_data.ip /\ table[i].port = proxy_data.port
             THEN [table[i] EXCEPT !.protocol = proxy_data.protocol,
                                   !.username = proxy_data.username,
                                   !.password = proxy_data.password,
                                   !.is_active = TRUE, !.success_rate = 100]
             ELSE table[i]]
    ELSE Append(table, ProxyRow(proxy_data.ip, proxy_data.port, proxy_data.protocol, TRUE, 100))

\* the loop of lines 145-156 over the first n accepted candidates
RECURSIVE Upserted(_, _, _)
Upserted(table, valid, n) ==
    IF n = 0 THEN table
    ELSE update_or_create(Upserted(table, valid, n - 1), valid[n])

-----------------------------------------------------------------------------
(* MultiEngineSearch.search_sync *)

\* Faulty variant: no default when the caller gives no list
ValidatedNoDefault(requested) ==
    SelectSeq(IF requested = NoList THEN <<>> ELSE requested, LAMBDA e : e \in RegisteredSet)

\* engines = [e for e in engines if e in self.engines], after the default
Validated(requested) ==
    LET given == IF requested = NoList \/ requested = <<>> THEN Registered ELSE requested
    IN SelectSeq(given, LAMBDA e : e \in RegisteredSet)

\* Faulty variant: the slots are not initialised, a slot appears when its unit is handled
InitDictLazy(d, keys, v) == d

RECURSIVE InitDict(_, _, _)
InitDict(d, keys, v) ==
    IF keys = <<>> THEN d ELSE InitDict(DictSet(d, Head(keys), v), Tail(keys), v)

\* the rows one provider's results make, in write order
QueryRow(id, q, engine_name) == [kind |-> "query", id |-> id, query |-> q, engine |-> engine_name]
ResultRow(id, result) ==
    [kind |-> "result", search_query |-> id, title |-> result.title, url |-> result.url,
     description |-> result.description, position |-> result.position]
Rows(id, q, engine_name, results) ==
    <<QueryRow(id, q, engine_name)>> \o [i \in 1..Len(results) |-> ResultRow(id, results[i])]
NextId(rows) == Cardinality({i \in 1..Len(rows) : rows[i].kind = "query"}) + 1

\* the sink accepts every write
NoFail == -1
NotSaved == "Results found but not saved: db_error"

\* Faulty variant: the persistence toggle is not consulted
ProcessFutureAlwaysSave(S, q, save, engine_name, out, failAt) ==
    IF out.exc # None
    THEN [S EXCEPT !.errors = DictSet(@, engine_name, out.exc)]
    ELSE LET S1 == [S EXCEPT !.results = DictSet(@, engine_name, out.results),
                             !.ip_used = DictSet(@, engine_name, out.ip_used)]
         IN IF out.results # <<>>
            THEN LET rows == Rows(NextId(S.db), q, engine_name, out.results)
                 IN IF failAt = NoFail
                    THEN [S1 EXCEPT !.db = @ \o rows]
                    ELSE [S1 EXCEPT !.db = @ \o SubSeq(rows, 1, failAt),
                                    !.errors = DictSet(@, engine_name, NotSaved)]
            ELSE S1

\* Faulty variant: a failed save drops the results it could not store
ProcessFutureDropUnsaved(S, q, save, engine_name, out, failAt) ==
    IF out.exc # None
    THEN [S EXCEPT !.errors = DictSet(@, engine_name, out.exc)]
    ELSE LET S1 == [S EXCEPT !.results = DictSet(@, engine_name, out.results),
                             !.ip_used = DictSet(@, engine_name, out.ip_used)]
         IN IF save /\ out.results # <<>>
            THEN LET rows == Rows(NextId(S.db), q, engine_name, out.results)
                 IN IF failAt = NoFail
                    THEN [S1 EXCEPT !.db = @ \o rows]
                    ELSE [S EXCEPT !.db = @ \o SubSeq(rows, 1, failAt),
                                   !.errors = DictSet(@, engine_name, NotSaved)]
            ELSE S1

\* Faulty variant: a unit's exception is written to every slot of the report
RECURSIVE SetAll(_, _, _)
SetAll(d, keys, v) ==
    IF keys = <<>> THEN d ELSE SetAll(DictSet(d, Head(keys), v), Tail(keys), v)
ProcessFutureLeaky(S, q, save, engine_name, out, failAt) ==
    IF out.exc # None
    THEN [S EXCEPT !.errors = SetAll(@, DictKeys(S.errors), out.exc)]
    ELSE LET S1 == [S EXCEPT !.results = DictSet(@, engine_name, out.results),
                             !.ip_used = DictSet(@, engine_name, out.ip_used)]
         IN IF save /\ out.results # <<>>
            THEN LET rows == Rows(NextId(S.db), q, engine_name, out.results)
                 IN IF failAt = NoFail
                    THEN [S1 EXCEPT !.db = @ \o rows]
                    ELSE [S1 EXCEPT !.db = @ \o SubSeq(rows, 1, failAt),
                                    !.errors = DictSet(@, engine_name, NotSaved)]
            ELSE S1

\* One iteration of the as_completed loop, on the report and sink S = [results,
\* ip_used, errors, db], for a future of engine_name that ended with outcome out.
\* failAt is the number of writes the sink accepts before it raises (NoFail: all).
ProcessFuture(S, q, save, engine_name, out, failAt) ==
    IF out.exc # None
    THEN [S EXCEPT !.errors = DictSet(@, engine_name, out.exc)]
    ELSE LET S1 == [S EXCEPT !.results = DictSet(@, engine_name, out.results),
                             !.ip_used = DictSet(@, engine_name, out.ip_used)]
         IN IF save /\ out.results # <<>>
            THEN LET rows == Rows(NextId(S.db), q, engine_name, out.results)
                 IN IF failAt = NoFail
                    THEN [S1 EXCEPT !.db = @ \o rows]
                    ELSE [S1 EXCEPT !.db = @ \o SubSeq(rows, 1, failAt),
                                    !.errors = DictSet(@, engine_name, NotSaved)]
            ELSE S1

Report == [results |-> results_dict, ip_used |-> ip_used_dict, errors |-> errors_dict, db |-> db]

\* A submitted unit: its engine, whether it still runs, what search returned or
\* raised, what the fetch client got ("none" while it runs), and whether the
\* as_completed loop has handled it.
NoOutcome == [exc |-> None, results |-> <<>>, ip_used |-> <<>>]
Future(e) ==
    [engine |-> e, state |-> "running", fetched |-> "none", outcome |-> NoOutcome,
     handled |-> FALSE]

parseVars == <<doc, parser, parsed>>
utilVars == <<search_results, formatted, sync_calls>>
poolVars == <<proxy_manager, pool_ret, fetch_in, fetch_out>>
jobVars == <<proxy_table, jpc, parts, failed, proxies, checks, valid_proxies, job_ret,
             before, runs>>

\* lines 234-255: default, validation, initialisation of the slots, submission of
\* one unit per entry of the validated list
Dispatch ==
    /\ pc = "start"
    /\ query # ""
    /\ Validated(engines) # <<>>
    /\ results_dict' = InitDict(<<>>, Validated(engines), <<>>)
    /\ errors_dict' = InitDict(<<>>, Validated(engines), None)
    /\ ip_used_dict' = <<>>
    /\ futures' = [i \in 1..Len(Validated(engines)) |-> Future(Validated(engines)[i])]
    /\ pc' = "running"
    /\ UNCHANGED <<query, engines, save_to_db, ipify, db, log, response, parseVars, utilVars, poolVars, jobVars>>

\* Faulty variant: the setup failure is not caught and reaches the caller
DispatchNoneRaises ==
    /\ pc = "start"
    /\ query # ""
    /\ Validated(engines) = <<>>
    /\ results_dict' = <<>>
    /\ errors_dict' = <<>>
    /\ ip_used_dict' = <<>>
    /\ futures' = <<>>
    /\ pc' = "raised"
    /\ UNCHANGED <<query, engines, save_to_db, ipify, db, log, response, parseVars, utilVars, poolVars, jobVars>>

\* no valid engine: ThreadPoolExecutor(max_workers=0) raises ValueError, the outer
\* except logs it and the report is returned
DispatchNone ==
    /\ pc = "start"
    /\ query # ""
    /\ Validated(engines) = <<>>
    /\ results_dict' = <<>>
    /\ errors_dict' = <<>>
    /\ ip_used_dict' = <<>>
    /\ futures' = <<>>
    /\ pc' = "returned"
    /\ UNCHANGED <<query, engines, save_to_db, ipify, db, log, response, parseVars, utilVars, poolVars, jobVars>>

\* a unit (engine.search in a worker thread) ends
UnitComplete(i) ==
    /\ futures[i].state = "running"
    /\ \E fetch \in Fetches, ua \in UserAgents :
          futures' = [futures EXCEPT ![i].state = "done",
                                     ![i].fetched = fetch.kind,
                                     ![i].outcome = search(futures[i].engine, ipify, fetch, ua)]
    /\ UNCHANGED <<pc, query, engines, save_to_db, ipify, results_dict, ip_used_dict,
                   errors_dict, db, log, response, parseVars, utilVars, poolVars, jobVars>>

FailPoints(save, out) ==
    IF save /\ out.exc = None /\ out.results # <<>>
    THEN {NoFail} \cup (0..Len(out.results))
    ELSE {NoFail}

\* as_completed yields a finished future and the loop body handles it
HandleFuture(i) ==
    /\ pc = "running"
    /\ futures[i].state = "done"
    /\ ~futures[i].handled
    /\ \E failAt \in FailPoints(save_to_db, futures[i].outcome) :
          LET S == ProcessFuture(Report, query, save_to_db, futures[i].engine,
                                 futures[i].outcome, failAt)
          IN /\ results_dict' = S.results
             /\ ip_used_dict' = S.ip_used
             /\ errors_dict' = S.errors
             /\ db' = S.db
             /\ log' = Append(log, [unit |-> i, failAt |-> failAt])
    /\ futures' = [futures EXCEPT ![i].handled = TRUE]
    /\ UNCHANGED <<pc, query, engines, save_to_db, ipify, response, parseVars, utilVars, poolVars, jobVars>>

\* as_completed is exhausted, the executor is shut down (wait=True), the report is returned
\* Faulty variant: the loop waits for as many futures as there are registered providers
LoopDoneWaitsForAll == Len(log) = Len(Registered)

\* Faulty variant: the loop stops at the first handled future
LoopDoneFirst == \E i \in 1..Len(futures) : futures[i].handled

LoopDone == \A i \in 1..Len(futures) : futures[i].handled
Return ==
    /\ pc = "running"
    /\ LoopDone
    /\ pc' = "returned"
    /\ UNCHANGED <<query, engines, save_to_db, ipify, futures, results_dict, ip_used_dict,
                   errors_dict, db, log, response, parseVars, utilVars, poolVars, jobVars>>

-----------------------------------------------------------------------------
(* search_view *)

Ok200 == 200
BadRequest400 == 400
ServerError500 == 500

\* search_view always passes a list: the engine parameters, or its default;
\* other callers (SearchUtils) call search_sync without one
ViaView == engines # NoList /\ engines # <<>>

\* no q parameter: 400 before any search
RejectRequest ==
    /\ pc = "start"
    /\ ViaView
    /\ query = ""
    /\ response' = [status |-> BadRequest400, results |-> <<>>, ip_used |-> <<>>, errors |-> <<>>]
    /\ pc' = "responded"
    /\ UNCHANGED <<query, engines, save_to_db, ipify, futures, results_dict, ip_used_dict,
                   errors_dict, db, log, parseVars, utilVars, poolVars, jobVars>>

\* search_sync returned: the view answers 200 with the report; had it raised
\* (pc = "raised"), the view would answer 500 with the error alone
Respond ==
    /\ pc \in {"returned", "raised"}
    /\ ViaView
    /\ response' = IF pc = "raised"
                   THEN [status |-> ServerError500, results |-> <<>>, ip_used |-> <<>>,
                         errors |-> <<>>]
                   ELSE [status |-> Ok200, results |-> results_dict,
                         ip_used |-> ip_used_dict, errors |-> errors_dict]
    /\ pc' = "responded"
    /\ UNCHANGED <<query, engines, save_to_db, ipify, futures, results_dict, ip_used_dict,
                   errors_dict, db, log, parseVars, utilVars, poolVars, jobVars>>

-----------------------------------------------------------------------------
(* MultiEngineSearch.search, the async entry point, and async_search_view *)

\* what a task of run_in_executor gives when engine.search returns: the tuple
\* (results, ip_used), a list and a string
TaskResult(out) ==
    <<[type |-> "list", value |-> out.results], [type |-> "str", value |-> out.ip_used]>>

\* await asyncio.gather(*tasks), without return_exceptions: the results in the
\* order of the tasks, or the exception of the first task that raised; order
\* lists the tasks in the order they ended.
FirstRaised(outs, order) ==
    order[CHOOSE k \in 1..Len(order) :
              /\ outs[order[k]].exc # None
              /\ \A j \in 1..(k - 1) : outs[order[j]].exc = None]
gather(outs, order) ==
    IF \E i \in DOMAIN outs : outs[i].exc # None
    THEN [exc |-> outs[FirstRaised(outs, order)].exc, values |-> <<>>]
    ELSE [exc |-> None, values |-> [i \in DOMAIN outs |-> TaskResult(outs[i])]]

ListSubscriptError == "TypeError: list indices must be integers or slices, not str"
StrSubscriptError == "TypeError: string indices must be integers, not 'str'"

\* for result in results[i]: SearchResult.objects.create(title=result["title"], ...)
\* over the elements of one task's tuple, from element n on; the arguments are
\* evaluated before anything is written
RECURSIVE CreateLoop(_, _, _, _)
CreateLoop(rows, id, value, n) ==
    IF n > Len(value) THEN [exc |-> None, db |-> rows]
    ELSE LET result == value[n]
         IN IF result.type = "list" THEN [exc |-> ListSubscriptError, db |-> rows]
            ELSE IF result.type = "str" THEN [exc |-> StrSubscriptError, db |-> rows]
            ELSE CreateLoop(Append(rows, ResultRow(id, result.value)), id, value, n + 1)

\* for i, engine_name in enumerate(engines): search_query.save(), then the loop
\* above, from engine i on; accepted is the number of writes the sink accepts
\* before it raises (NoFail: all)
RECURSIVE SaveLoop(_, _, _, _, _, _)
SaveLoop(rows, q, engs, values, i, accepted) ==
    IF i > Len(engs) THEN [exc |-> None, db |-> rows]
    ELSE IF accepted = 0 THEN [exc |-> "db_error", db |-> rows]
    ELSE LET id == NextId(rows)
             saved == Append(rows, QueryRow(id, q, engs[i]))
             created == CreateLoop(saved, id, values[i], 1)
         IN IF created.exc # None THEN created
            ELSE SaveLoop(created.db, q, engs, values, i + 1, accepted)

\* MultiEngineSearch.search(query, engines) for tasks that ended with outs in the
\* order given, on a sink holding rows: [exc, results, db]; with exc # None
\* nothing is returned. self.save_to_db is not read.
search_async(q, requested, outs, order, rows, accepted) ==
    LET engs == Validated(requested)
        results == gather(outs, order)
    IN IF results.exc # None THEN [exc |-> results.exc, results |-> <<>>, db |-> rows]
       ELSE LET stored == SaveLoop(rows, q, engs, results.values, 1, accepted)
            IN IF stored.exc # None
               THEN [exc |-> stored.exc, results |-> <<>>, db |-> stored.db]
               ELSE [exc |-> None,
                     results |-> [i \in 1..Len(engs) |-> <<engs[i], results.values[i]>>],
                     db |-> stored.db]

\* async_search_view: 400 without q, 500 when search raised, else 200 with what it returned
async_search_view(q, requested, outs, order, rows, accepted) ==
    IF q = "" THEN [status |-> BadRequest400, results |-> <<>>, error |-> "Query parameter 'q' is required"]
    ELSE LET r == search_async(q, requested, outs, order, rows, accepted)
         IN IF r.exc # None
            THEN [status |-> ServerError500, results |-> <<>>, error |-> <<"Async search failed: ", r.exc>>]
            ELSE [status |-> Ok200, results |-> r.results, error |-> None]

-----------------------------------------------------------------------------
(* States before any fetch, pool operation or proxy job *)

NoCall == [op |-> "none", ret |-> <<>>]
NoFetch == [engine |-> "none", lookup |-> "none", fetch |-> [kind |-> "none", html |-> <<>>]]
NoFetchOut ==
    [request |-> [exc |-> None, body |-> Absent, ip_used |-> <<>>, get |-> FALSE, proxies |-> Absent,
                 user_agent |-> "none"],
     outcome |-> [exc |-> None, results |-> <<>>, ip_used |-> <<>>]]

\* no pool operation and no fetch yet
PoolIdle ==
    /\ proxy_manager = ProxyManagerInit
    /\ pool_ret = NoCall
    /\ fetch_in = NoFetch
    /\ fetch_out = NoFetchOut

\* update_proxy_list has not been called
JobNotStarted ==
    /\ jpc = "idle"
    /\ parts = <<>>
    /\ failed = <<>>
    /\ proxies = <<>>
    /\ checks = <<>>
    /\ valid_proxies = <<>>
    /\ job_ret = <<>>
    /\ before = <<>>
    /\ runs = 0

\* an empty Proxy table, no job
JobIdle == proxy_table = <<>> /\ JobNotStarted

\* perform_search_if_needed has not been called
NoReport == [results |-> <<>>, ip_used |-> <<>>, errors |-> <<>>]
NotYet == <<"<not returned>">>
UtilsIdle ==
    /\ search_results = NoReport
    /\ formatted = NotYet
    /\ sync_calls = 0

-----------------------------------------------------------------------------
(* Specification of one request *)

EngineIds == RegisteredSet \cup {"yahoo"}
\* engine lists of a request: up to MaxReq ids, the view's default, or no list
Requests == SeqsUpTo(EngineIds, MaxReq) \cup {Registered, NoList}
Queries == {"", "test"}
NoResponse == [status |-> 0, results |-> <<>>, ip_used |-> <<>>, errors |-> <<>>]

Init ==
    /\ pc = "start"
    /\ query \in Queries
    /\ engines \in Requests
    /\ query = "" => ViaView
    /\ save_to_db \in BOOLEAN
    /\ ipify \in Lookups
    /\ futures = <<>>
    /\ results_dict = <<>>
    /\ ip_used_dict = <<>>
    /\ errors_dict = <<>>
    /\ db = <<>>
    /\ log = <<>>
    /\ response = NoResponse
    /\ doc = <<>>
    /\ parser = "google"
    /\ parsed = [exc |-> None, results |-> <<>>]
    /\ PoolIdle
    /\ JobIdle
    /\ UtilsIdle

Next ==
    \/ Dispatch
    \/ DispatchNone
    \/ \E i \in 1..Len(futures) : UnitComplete(i)
    \/ \E i \in 1..Len(futures) : HandleFuture(i)
    \/ Return
    \/ RejectRequest
    \/ Respond

Spec == Init /\ [][Next]_vars

\* The same with the scheduling the code has: a request that came in is served;
\* every dispatched unit ends, its GET being bounded by timeout=20 and the
\* public-IP lookup by timeout=5; the main thread, blocked in as_completed,
\* runs whenever a finished future is there to handle or the loop is exhausted.
Fairness ==
    /\ WF_vars(Dispatch)
    /\ WF_vars(DispatchNone)
    /\ \A i \in 1..(MaxReq + Len(Registered)) :
          WF_vars(i \in 1..Len(futures) /\ UnitComplete(i))
    /\ \A i \in 1..(MaxReq + Len(Registered)) :
          WF_vars(i \in 1..Len(futures) /\ HandleFuture(i))
    /\ WF_vars(Return)
SpecLive == Spec /\ Fairness

-----------------------------------------------------------------------------
(* Specification of the parsers alone: any provider, any document *)

requestVars == <<query, engines, save_to_db, ipify, futures, results_dict, ip_used_dict,
                 errors_dict, db, log, response>>

InitParse ==
    /\ pc = "parse"
    /\ doc \in Docs
    /\ parser \in RegisteredSet
    /\ parsed = [exc |-> None, results |-> <<>>]
    /\ query = "test"
    /\ engines = NoList
    /\ save_to_db = TRUE
    /\ ipify = "ok"
    /\ futures = <<>>
    /\ results_dict = <<>>
    /\ ip_used_dict = <<>>
    /\ errors_dict = <<>>
    /\ db = <<>>
    /\ log = <<>>
    /\ response = NoResponse
    /\ PoolIdle
    /\ JobIdle
    /\ UtilsIdle

ParseDoc ==
    /\ pc = "parse"
    /\ parsed' = Parse(parser, doc)
    /\ pc' = "parsed"
    /\ UNCHANGED <<doc, parser, requestVars, utilVars, poolVars, jobVars>>

NextParse == ParseDoc

SpecParse == InitParse /\ [][NextParse]_vars

-----------------------------------------------------------------------------
(* Specification of the fetch client and of the proxy pool *)

\* what a provider's GET may meet
FetchKinds ==
    { [kind |-> "body", html |-> DocA], [kind |-> "body", html |-> DocEmpty],
      [kind |-> "timeout", html |-> <<>>], [kind |-> "connection", html |-> <<>>],
      [kind |-> "status", html |-> <<>>], [kind |-> "raise", html |-> <<>>] }

\* Proxy tables a pool operation may find: empty, one active row, an inactive
\* row and an active one
ProxyTables ==
    { <<>>,
      <<ProxyRow("198.51.100.1", 8080, "http", TRUE, 100)>>,
      <<ProxyRow("198.51.100.1", 8080, "https", FALSE, 40),
        ProxyRow("198.51.100.2", 3128, "http", TRUE, 100)>> }

TableRows == {proxy_table[i] : i \in 1..Len(proxy_table)}

LoadProxies ==
    /\ pc = "pool"
    /\ pool_ret' = [op |-> "_load_proxies", ret |-> _load_proxies(proxy_manager)]
    /\ UNCHANGED <<pc, requestVars, parseVars, utilVars, proxy_manager, fetch_in, fetch_out, jobVars>>

GetRandomProxy ==
    /\ pc = "pool"
    /\ pool_ret' = [op |-> "get_random_proxy", ret |-> get_random_proxy(proxy_manager)]
    /\ UNCHANGED <<pc, requestVars, parseVars, utilVars, proxy_manager, fetch_in, fetch_out, jobVars>>

FormatProxy(proxy) ==
    /\ pc = "pool"
    /\ pool_ret' = [op |-> "format_proxy", ret |-> format_proxy(proxy_manager, proxy)]
    /\ UNCHANGED <<pc, requestVars, parseVars, utilVars, proxy_manager, fetch_in, fetch_out, jobVars>>

\* the hook a search has on a proxy's record; also called while the job runs
UpdateProxyStatus(proxy, success) ==
    /\ pc \in {"pool", "job"}
    /\ proxy_manager' = update_proxy_status(proxy_manager, proxy, success)
    /\ pool_ret' = [op |-> "update_proxy_status", ret |-> Absent]
    /\ UNCHANGED <<pc, requestVars, parseVars, utilVars, fetch_in, fetch_out, jobVars>>

\* one provider's search: get_public_ip, the GET, the parse
FetchPage(e) ==
    /\ pc = "pool"
    /\ \E lookup \in LookupKinds, fetch \in FetchKinds, ua \in UserAgents :
          /\ fetch_in' = [engine |-> e, lookup |-> lookup, fetch |-> fetch]
          /\ fetch_out' = [request |-> _make_request(lookup, fetch, ua),
                           outcome |-> search(e, lookup, fetch, ua)]
    /\ UNCHANGED <<pc, requestVars, parseVars, utilVars, proxy_manager, pool_ret, jobVars>>

InitFetch ==
    /\ pc = "pool"
    /\ query = "test"
    /\ engines = NoList
    /\ save_to_db = TRUE
    /\ ipify = "ok"
    /\ futures = <<>>
    /\ results_dict = <<>>
    /\ ip_used_dict = <<>>
    /\ errors_dict = <<>>
    /\ db = <<>>
    /\ log = <<>>
    /\ response = NoResponse
    /\ doc = <<>>
    /\ parser = "google"
    /\ parsed = [exc |-> None, results |-> <<>>]
    /\ PoolIdle
    /\ proxy_table \in ProxyTables
    /\ JobNotStarted
    /\ UtilsIdle

NextFetch ==
    \/ LoadProxies
    \/ GetRandomProxy
    \/ \E proxy \in TableRows : FormatProxy(proxy)
    \/ \E proxy \in TableRows, success \in BOOLEAN : UpdateProxyStatus(proxy, success)
    \/ \E e \in RegisteredSet : FetchPage(e)

SpecFetch == InitFetch /\ [][NextFetch]_vars

-----------------------------------------------------------------------------
(* Specification of the proxy maintenance job *)

\* rows of the table of free-proxy-list.net: two for one address (http, https),
\* one for another, one whose port is no number, one with too few cells
FreeProxyListRowSet ==
    { [ip |-> "198.51.100.1", port |-> "8080", https |-> "no", cols |-> 8],
      [ip |-> "198.51.100.1", port |-> "8080", https |-> "yes", cols |-> 8],
      [ip |-> "198.51.100.2", port |-> "3128", https |-> "no", cols |-> 8],
      [ip |-> "198.51.100.2", port |-> "n/a", https |-> "no", cols |-> 8],
      [ip |-> "198.51.100.2", port |-> "3128", https |-> "no", cols |-> 7] }
FreeProxyListPages ==
    {[kind |-> "ok", rows |-> rows] : rows \in SeqsUpTo(FreeProxyListRowSet, MaxSrc)}
        \cup {[kind |-> "notable", rows |-> <<>>], [kind |-> "exception", rows |-> <<>>]}

\* items of geonode's answer: one with protocols, one without the key, one with
\* an empty protocols list
GeonodeItemSet ==
    { [ip |-> "198.51.100.1", port |-> "8080", protocols |-> Found(<<"HTTP">>)],
      [ip |-> "198.51.100.2", port |-> "3128", protocols |-> Absent],
      [ip |-> "198.51.100.2", port |-> "3128", protocols |-> Found(<<>>)] }
GeonodePages ==
    {[kind |-> "ok", data |-> data] : data \in SeqsUpTo(GeonodeItemSet, MaxSrc)}
        \cup {[kind |-> "exception", data |-> <<>>]}

\* update_proxy_list, lines 137-142 up to the submission of the validations
StartRefresh ==
    /\ pc = "job"
    /\ jpc = "idle"
    /\ runs < MaxRuns
    /\ \E page1 \in FreeProxyListPages, page2 \in GeonodePages :
          /\ parts' = <<fetch_from_free_proxy_list(page1), fetch_from_geonode(page2)>>
          /\ failed' = <<page1.kind # "ok" \/ FreeProxyListBody(page1).exc # None,
                         GeonodeBody(page2).exc # None>>
          /\ proxies' = fetch_all(page1, page2)
          /\ checks' = [i \in 1..Len(fetch_all(page1, page2)) |-> "running"]
    /\ valid_proxies' = <<>>
    /\ job_ret' = <<>>
    /\ before' = proxy_table
    /\ runs' = runs + 1
    /\ jpc' = "validating"
    /\ UNCHANGED <<pc, requestVars, parseVars, utilVars, poolVars, proxy_table>>

\* one validation completes and the as_completed loop handles it
ValidateOne(i) ==
    /\ pc = "job"
    /\ jpc = "validating"
    /\ checks[i] = "running"
    /\ \E probe \in Probes :
          /\ valid_proxies' = Completed(valid_proxies, proxies[i], validate(probe))
          /\ checks' = [checks EXCEPT ![i] = IF validate(probe).exc = None /\ validate(probe).is_valid
                                             THEN "valid" ELSE "rejected"]
    /\ UNCHANGED <<pc, requestVars, parseVars, utilVars, poolVars, proxy_table, jpc, parts, failed,
                   proxies, job_ret, before, runs>>

\* lines 145-158: the upserts and the return; the database may fail at the
\* failAt-th upsert, and then the call raises with the rows before it stored
Upsert ==
    /\ pc = "job"
    /\ jpc = "validating"
    /\ \A i \in 1..Len(checks) : checks[i] # "running"
    /\ \E failAt \in {NoFail} \cup 1..Len(valid_proxies) :
          IF failAt = NoFail
          THEN /\ proxy_table' = Upserted(proxy_table, valid_proxies, Len(valid_proxies))
               /\ job_ret' = <<Len(valid_proxies)>>
               /\ jpc' = "done"
          ELSE /\ proxy_table' = Upserted(proxy_table, valid_proxies, failAt - 1)
               /\ job_ret' = <<>>
               /\ jpc' = "raised"
    /\ UNCHANGED <<pc, requestVars, parseVars, utilVars, poolVars, parts, failed, proxies, checks,
                   valid_proxies, before, runs>>

\* the command ends (fetch_proxies.handle): the locals of the run are gone, the
\* table stays
Exit ==
    /\ pc = "job"
    /\ jpc \in {"done", "raised"}
    /\ jpc' = "idle"
    /\ parts' = <<>>
    /\ failed' = <<>>
    /\ proxies' = <<>>
    /\ checks' = <<>>
    /\ valid_proxies' = <<>>
    /\ job_ret' = <<>>
    /\ before' = <<>>
    /\ UNCHANGED <<pc, requestVars, parseVars, utilVars, poolVars, proxy_table, runs>>

InitJob ==
    /\ pc = "job"
    /\ query = "test"
    /\ engines = NoList
    /\ save_to_db = TRUE
    /\ ipify = "ok"
    /\ futures = <<>>
    /\ results_dict = <<>>
    /\ ip_used_dict = <<>>
    /\ errors_dict = <<>>
    /\ db = <<>>
    /\ log = <<>>
    /\ response = NoResponse
    /\ doc = <<>>
    /\ parser = "google"
    /\ parsed = [exc |-> None, results |-> <<>>]
    /\ PoolIdle
    /\ proxy_table \in ProxyTables
    /\ JobNotStarted
    /\ UtilsIdle

NextJob ==
    \/ StartRefresh
    \/ \E i \in 1..Len(checks) : ValidateOne(i)
    \/ Upsert
    \/ Exit
    \/ \E proxy \in TableRows, success \in BOOLEAN : UpdateProxyStatus(proxy, success)

SpecJob == InitJob /\ [][NextJob]_vars

-----------------------------------------------------------------------------
(* SearchUtils (backend/llm/services/search.py): the caller that turns a     *)
(* report of search_sync into the text handed to the language model.        *)
(* SpecUtils: one call of perform_search_if_needed, for any query of        *)
(* UtilQueries and any report search_sync may return for the default        *)
(* engines with up to MaxResults results per provider.                      *)

\* A query is here the sequence of its characters, a text a sequence of pieces.
UpperLetters == <<"A", "B", "C", "D", "E", "F", "G", "H", "I", "J", "K", "L", "M", "N", "O", "P", "Q", "R", "S", "T", "U", "V", "W", "X", "Y", "Z">>
LowerLetters == <<"a", "b", "c", "d", "e", "f", "g", "h", "i", "j", "k", "l", "m", "n", "o", "p", "q", "r", "s", "t", "u", "v", "w", "x", "y", "z">>
\* str.lower()
LowerChar(c) ==
    IF \E i \in 1..Len(UpperLetters) : UpperLetters[i] = c
    THEN LowerLetters[CHOOSE i \in 1..Len(UpperLetters) : UpperLetters[i] = c]
    ELSE c
LowerText(s) == [i \in 1..Len(s) |-> LowerChar(s[i])]
\* k in s, for strings
Contains(s, k) == \E i \in 0..(Len(s) - Len(k)) : SubSeq(s, i + 1, i + Len(k)) = k

keywords ==
    << <<"c", "u", "r", "r", "e", "n", "t">>,
       <<"r", "e", "c", "e", "n", "t">>,
       <<"l", "a", "t", "e", "s", "t">>,
       <<"n", "e", "w", "s">>,
       <<"t", "o", "d", "a", "y">>,
       <<"y", "e", "s", "t", "e", "r", "d", "a", "y">>,
       <<"t", "h", "i", "s", " ", "w", "e", "e", "k">>,
       <<"t", "h", "i", "s", " ", "m", "o", "n", "t", "h">>,
       <<"t", "h", "i", "s", " ", "y", "e", "a", "r">>,
       <<"u", "p", "d", "a", "t", "e">>,
       <<"s", "c", "o", "r", "e">>,
       <<"h", "a", "p", "p", "e", "n", "i", "n", "g">>,
       <<"t", "r", "e", "n", "d", "i", "n", "g">>,
       <<"a", "f", "t", "e", "r", " ", "2", "0", "2", "3">>,
       <<"a", "f", "t", "e", "r", " ", "2", "0", "2", "4">>,
       <<"2", "0", "2", "5">>,
       <<"s", "e", "a", "r", "c", "h">>,
       <<"l", "o", "o", "k", " ", "u", "p">>,
       <<"f", "i", "n", "d">> >>

\* any(keyword.lower() in query.lower() for keyword in keywords)
detect_search_needed(q) ==
    \E i \in 1..Len(keywords) : Contains(LowerText(q), LowerText(keywords[i]))

\* dict.get(key, default)
Get(d, k, default) == IF DictHas(d, k) THEN DictGet(d, k) ELSE default

\* f"{value}": None prints as "None"
Str(v) == IF v = NoneUrl \/ v = None THEN <<"None">> ELSE v

\* the length of a text
RECURSIVE StrLen(_)
StrLen(text) == IF text = <<>> THEN 0 ELSE Len(Head(text)) + StrLen(Tail(text))

SearchResultsHeader == <<"\n", "Search results:", "\n">>
NoResultsNote ==
    <<"\n", "Search was performed but no relevant results were found. Using model knowledge to provide an answer.", "\n">>
TopN == 3
MinLen == 20

\* Faulty variant: every result of the provider is formatted
TopAll(results) == results

\* results[:3]
Top(results) == SubSeq(results, 1, IF Len(results) < TopN THEN Len(results) ELSE TopN)

\* the three lines one result adds, numbered i
ResultLines(i, result) ==
    <<ToString(i), ". ">> \o Str(result.title) \o <<"\n">>
    \o <<"   URL: ">> \o Str(result.url) \o <<"\n">>
    \o <<"   ">> \o Str(result.description) \o <<"\n", "\n">>

\* for i, result in enumerate(results[:3], 1): the text and result_count after
\* the first n of them, from acc = [text, count]
RECURSIVE FormatLoop(_, _, _)
FormatLoop(acc, results, n) ==
    IF n = 0 THEN acc
    ELSE LET prev == FormatLoop(acc, results, n - 1)
         IN [text |-> prev.text \o ResultLines(n, Top(results)[n]), count |-> prev.count + 1]
FormatProvider(acc, results) == FormatLoop(acc, results, Len(Top(results)))

\* lines 51-115, on the report search_sync returned
FormatReport(report) ==
    LET results == report.results
        google_results == Get(results, "google", <<>>)
        a0 == [text |-> SearchResultsHeader, count |-> 0]
        a1 == IF google_results # <<>> THEN FormatProvider(a0, google_results) ELSE a0
        bing_results == Get(results, "bing", <<>>)
        a2 == IF google_results = <<>> /\ bing_results # <<>>
              THEN FormatProvider(a1, bing_results) ELSE a1
        ddg_results == Get(results, "duckduckgo", <<>>)
        a3 == IF google_results = <<>> /\ Get(results, "bing", <<>>) = <<>> /\ ddg_results # <<>>
              THEN FormatProvider(a2, ddg_results) ELSE a2
        formatted_results == IF a3.count > 0 THEN a3.text ELSE NoResultsNote
    IN IF StrLen(formatted_results) > MinLen THEN formatted_results ELSE <<>>

\* the results of a provider in a report: n of them, ranked from 1
ResultOf(e, i) ==
    ResultItem(<<e, " title ", ToString(i)>>, <<"https://", e, ".example/", ToString(i)>>,
               IF i = 2 THEN <<>> ELSE <<"about ", ToString(i)>>, i)
ResultList(e, n) == [i \in 1..n |-> ResultOf(e, i)]

\* most results a provider has in a report
MaxResults == 4

\* the reports search_sync(query) returns when every unit returned: one slot per
\* registered provider, in the order of the registry
Reports ==
    { [results |-> << <<"google", ResultList("google", g)>>, <<"bing", ResultList("bing", b)>>,
                      <<"duckduckgo", ResultList("duckduckgo", d)>> >>,
       ip_used |-> [i \in 1..Len(Registered) |-> <<Registered[i], <<"direct (", PublicIp, ")">> >>],
       errors |-> [i \in 1..Len(Registered) |-> <<Registered[i], None>>]]
      : g \in 0..MaxResults, b \in 0..MaxResults, d \in 0..MaxResults }

\* "hi", "Latest", "refind", "what is new"
UtilQueries ==
    { <<"h", "i">>, <<"L", "a", "t", "e", "s", "t">>, <<"r", "e", "f", "i", "n", "d">>,
      <<"w", "h", "a", "t", " ", "i", "s", " ", "n", "e", "w">> }

\* perform_search_if_needed, lines 36-37: no keyword in the query, "" is returned
\* and search_sync is not called
NoSearchNeeded ==
    /\ pc = "utils"
    /\ formatted = NotYet
    /\ ~detect_search_needed(query)
    /\ formatted' = <<>>
    /\ UNCHANGED <<pc, requestVars, parseVars, poolVars, jobVars, search_results, sync_calls>>

\* perform_search_if_needed, lines 39-115: search_sync(query) is called once, with
\* no engine list, and its report is formatted. search_sync catches what its
\* units and its sink raise and returns a report for every such call, so the
\* handler of line 116 is not entered.
PerformSearch ==
    /\ pc = "utils"
    /\ formatted = NotYet
    /\ detect_search_needed(query)
    /\ \E report \in Reports :
          /\ search_results' = report
          /\ formatted' = FormatReport(report)
    /\ sync_calls' = sync_calls + 1
    /\ UNCHANGED <<pc, requestVars, parseVars, poolVars, jobVars>>

InitUtils ==
    /\ pc = "utils"
    /\ query \in UtilQueries
    /\ engines = NoList
    /\ save_to_db = TRUE
    /\ ipify = "ok"
    /\ futures = <<>>
    /\ results_dict = <<>>
    /\ ip_used_dict = <<>>
    /\ errors_dict = <<>>
    /\ db = <<>>
    /\ log = <<>>
    /\ response = NoResponse
    /\ doc = <<>>
    /\ parser = "google"
    /\ parsed = [exc |-> None, results |-> <<>>]
    /\ PoolIdle
    /\ JobIdle
    /\ UtilsIdle

NextUtils ==
    \/ NoSearchNeeded
    \/ PerformSearch

SpecUtils == InitUtils /\ [][NextUtils]_vars

-----------------------------------------------------------------------------
(* Vocabulary of the properties *)

\* the ids a request names; with no list (or an empty one), every registered provider
RequestedIds ==
    IF engines = NoList \/ engines = <<>> THEN RegisteredSet
    ELSE {engines[i] : i \in 1..Len(engines)}
Recognized == RequestedIds \cap RegisteredSet

SlotCount(d, k) == Cardinality({i \in 1..Len(d) : d[i][1] = k})

\* a provider's part of a report S
IpOf(S, e) == IF DictHas(S.ip_used, e) THEN Found(DictGet(S.ip_used, e)) ELSE Absent
Slot(S, e) ==
    [results |-> DictGet(S.results, e), ip_used |-> IpOf(S, e), error |-> DictGet(S.errors, e)]

Units == 1..Len(futures)
UnitsOf(e) == {i \in Units : futures[i].engine = e}
ActualOuts == [i \in Units |-> futures[i].outcome]
ActualFails == [k \in 1..Len(log) |-> log[k].failAt]

\* The report search_sync builds from the slots as initialised when it handles the
\* first k futures of the log, had the units ended with outs, the toggle been save
\* and the sink failed at fails.
Initialised ==
    [results |-> InitDict(<<>>, Validated(engines), <<>>), ip_used |-> <<>>,
     errors |-> InitDict(<<>>, Validated(engines), None), db |-> <<>>]
RECURSIVE Replay(_, _, _, _)
Replay(k, outs, save, fails) ==
    IF k = 0 THEN Initialised
    ELSE ProcessFuture(Replay(k - 1, outs, save, fails), query, save,
                       futures[log[k].unit].engine, outs[log[k].unit], fails[k])

\* what a unit of engine e can return without raising
Successes(e) ==
    {o \in {search(e, lookup, fetch, ua) : lookup \in Lookups, fetch \in Fetches, ua \in UserAgents} :
        o.exc = None}

InCall == pc \in {"running", "returned"}
Returned == pc = "returned"

\* the model's bookkeeping agrees with the code's report
ReplayIsReport ==
    InCall => Replay(Len(log), ActualOuts, save_to_db, ActualFails) = Report

-----------------------------------------------------------------------------
(* C1 *)

\* C1: the report search_sync returns has exactly one slot in results and exactly
\* one slot in errors for every requested id that is registered, and no other
\* slot, whatever the units did (results, nothing, an exception).
C1_OneSlotPerRecognizedProvider ==
    Returned =>
        /\ \A e \in Recognized :
              SlotCount(results_dict, e) = 1 /\ SlotCount(errors_dict, e) = 1
        /\ KeySet(results_dict) = Recognized
        /\ KeySet(errors_dict) = Recognized
        /\ Len(results_dict) = Cardinality(Recognized)
        /\ Len(errors_dict) = Cardinality(Recognized)

\* C1 witness: a returned report of two providers in which every unit raised
C1_Witness ==
    /\ Returned
    /\ Cardinality(Recognized) = 2
    /\ \A i \in Units : futures[i].outcome.exc # None
    /\ \A e \in Recognized : DictGet(errors_dict, e) # None

\* C1 witness of the single-provider case: one supported id, one key
C1_WitnessSingle ==
    /\ Returned
    /\ engines = <<"bing">>
    /\ DictKeys(results_dict) = <<"bing">>

-----------------------------------------------------------------------------
(* C2 *)

\* the outcomes with unit i's replaced by o
WithOutcome(i, o) == [j \in Units |-> IF j = i THEN o ELSE futures[j].outcome]

\* C2: when a unit raises, handling it stores the exception text in its own
\* provider's error slot, and every other provider's results, egress identity and
\* error are what they are in the report built had that unit returned (any result
\* list, any egress identity) instead of raising; search_sync itself never raises.
C2_FailureIsolation ==
    /\ pc # "raised"
    /\ InCall =>
        /\ (log # <<>> /\ futures[log[Len(log)].unit].outcome.exc # None) =>
              DictGet(errors_dict, futures[log[Len(log)].unit].engine)
                  = futures[log[Len(log)].unit].outcome.exc
        /\ \A k \in 1..Len(log) :
              LET i == log[k].unit
              IN futures[i].outcome.exc # None =>
                    \A o \in Successes(futures[i].engine) :
                        \A e \in KeySet(results_dict) \ {futures[i].engine} :
                            Slot(Report, e)
                                = Slot(Replay(Len(log), WithOutcome(i, o), save_to_db, ActualFails), e)

\* C2 witness: the report is returned, one provider's unit raised and its slot
\* holds the text, another provider's slot holds its results
C2_Witness ==
    /\ Returned
    /\ \E i, j \in Units :
          /\ futures[i].engine # futures[j].engine
          /\ futures[i].outcome.exc # None
          /\ DictGet(errors_dict, futures[i].engine) = futures[i].outcome.exc
          /\ futures[j].outcome.results # <<>>
          /\ DictGet(results_dict, futures[j].engine) = futures[j].outcome.results
          /\ DictGet(errors_dict, futures[j].engine) = None

-----------------------------------------------------------------------------
(* C3 *)

\* C3: once search_sync has returned, no unit it dispatched is still running:
\* every one has ended and has been handled.
C3_NoEarlyReturn ==
    pc \in {"returned", "responded"} =>
        \A i \in Units : futures[i].state = "done" /\ futures[i].handled

\* C3 witness: a return after three units, the last of which ended after the
\* first had already been handled
C3_Witness ==
    /\ Returned
    /\ Len(futures) = 3
    /\ Len(log) = 3
    /\ log[1].unit = 3

-----------------------------------------------------------------------------
(* C4 *)

\* C4: the n results a parser returns carry positions 1, 2, ..., n in list order.
C4_RanksContiguous ==
    (pc = "parsed" /\ parsed.exc = None) =>
        \A k \in 1..Len(parsed.results) : parsed.results[k].position = k

\* what the parsers do guarantee: positions are those of the candidates in the
\* document, strictly increasing and at most the number of candidates
RanksIncreasing ==
    (pc = "parsed" /\ parsed.exc = None) =>
        /\ \A k \in 1..Len(parsed.results) :
              parsed.results[k].position \in k..Len(doc)
        /\ \A k \in 1..(Len(parsed.results) - 1) :
              parsed.results[k].position < parsed.results[k + 1].position

-----------------------------------------------------------------------------
(* C5 *)

\* the positions in the log of the futures of provider e, and the last of them
HandledOf(e) == {k \in 1..Len(log) : futures[log[k].unit].engine = e}
LastOf(e) == CHOOSE k \in HandledOf(e) : \A j \in HandledOf(e) : j <= k

\* the sink's behaviour with the failure at log position k taken away
WithoutFailure(k) == [j \in 1..Len(log) |-> IF j = k THEN NoFail ELSE log[j].failAt]

-----------------------------------------------------------------------------
(* C6 *)

\* the rows of the sink that belong to provider e: its query rows and the result
\* rows that refer to them, in write order
QueryIdsOf(e) == {db[i].id : i \in {j \in 1..Len(db) : db[j].kind = "query" /\ db[j].engine = e}}
IsRowOf(row, e) ==
    IF row.kind = "query" THEN row.engine = e ELSE row.search_query \in QueryIdsOf(e)
RowsOf(e) == SelectSeq(db, LAMBDA row : IsRowOf(row, e))

SinkWorked == \A k \in 1..Len(log) : log[k].failAt = NoFail

\* C6: with the toggle enabled (and a sink that accepts the writes), the call
\* writes for each provider whose outcome has a result exactly one query record
\* followed by one result record per result in rank order, and nothing for a
\* provider without results or whose unit raised.
C6_OneQueryRecordPerProvider ==
    (Returned /\ save_to_db /\ SinkWorked) =>
        \A e \in Recognized :
            LET rows == RowsOf(e)
                results == DictGet(results_dict, e)
            IN IF results # <<>> /\ \A i \in UnitsOf(e) : futures[i].outcome.exc = None
               THEN /\ Len(rows) = 1 + Len(results)
                    /\ rows[1].kind = "query" /\ rows[1].query = query /\ rows[1].engine = e
                    /\ \A k \in 1..Len(results) :
                          rows[k + 1] = ResultRow(rows[1].id, results[k])
               ELSE rows = <<>>

\* an id is named once in the validated list
NoRepeatedId == \A i, j \in Units : futures[i].engine = futures[j].engine => i = j

\* the same statement for requests that name no id twice
C6_WhenNoIdRepeated == NoRepeatedId => C6_OneQueryRecordPerProvider

-----------------------------------------------------------------------------
(* C7 *)

\* C7: with the toggle disabled nothing is written to the sink, and the report is
\* the one search_sync builds from the same unit outcomes, handled in the same
\* order, with the toggle enabled and a sink that accepts every write.
C7_DisabledToggleWritesNothing ==
    (InCall /\ ~save_to_db) =>
        /\ db = <<>>
        /\ LET enabled == Replay(Len(log), ActualOuts, TRUE, ActualFails)
           IN /\ enabled.results = results_dict
              /\ enabled.ip_used = ip_used_dict
              /\ enabled.errors = errors_dict

\* C7 witness: a returned report with results, toggle disabled, sink untouched,
\* where the enabled toggle would have written rows
C7_Witness ==
    /\ Returned
    /\ ~save_to_db
    /\ db = <<>>
    /\ \E e \in KeySet(results_dict) : DictGet(results_dict, e) # <<>>
    /\ Replay(Len(log), ActualOuts, TRUE, ActualFails).db # <<>>

-----------------------------------------------------------------------------
(* C8 *)

-----------------------------------------------------------------------------
(* C9 *)

\* C9: the providers dispatched and reported are all registered ones when no list
\* is given and otherwise the requested ids that are registered; an unrecognized
\* id has no slot in results, ip_used or errors, and the call does not raise.
C9_DispatchedAreRequestedAndRegistered ==
    /\ pc # "raised"
    /\ (InCall \/ (pc = "responded" /\ query # "")) =>
          /\ {futures[i].engine : i \in Units} = Recognized
          /\ KeySet(results_dict) = Recognized
          /\ KeySet(errors_dict) = Recognized
          /\ KeySet(ip_used_dict) \subseteq Recognized
          /\ (engines = NoList \/ engines = <<>>) => Recognized = RegisteredSet

\* C9 witness: a request naming an unrecognized id beside a registered one is
\* answered with the registered one's results
C9_Witness ==
    /\ Returned
    /\ engines = <<"yahoo", "duckduckgo">>
    /\ DictKeys(results_dict) = <<"duckduckgo">>
    /\ DictGet(results_dict, "duckduckgo") # <<>>
    /\ DictGet(errors_dict, "duckduckgo") = None

\* C9 witness of the default: no list given, three providers reported
C9_WitnessDefault ==
    /\ Returned
    /\ engines = NoList
    /\ DictKeys(results_dict) = Registered

-----------------------------------------------------------------------------
(* C10 *)

\* the request names providers and none of them is registered
NamesOnlyUnknown == engines # NoList /\ engines # <<>> /\ Recognized = {}

\* C10 as claimed: a request naming only unregistered providers is answered with
\* a request-level error, not with a report.
C10_SetupFailureIsRequestError ==
    (pc = "responded" /\ query # "" /\ NamesOnlyUnknown) => response.status # Ok200

\* C10 as amended: such a request is answered like any other, 200 with a report
\* whose results, ip_used and errors mappings are empty, and nothing is dispatched
\* or written.
C10_SetupFailureGivesEmptyReport ==
    (query # "" /\ NamesOnlyUnknown) =>
        /\ pc # "raised"
        /\ futures = <<>> /\ db = <<>>
        /\ pc = "responded" =>
              response = [status |-> Ok200, results |-> <<>>, ip_used |-> <<>>, errors |-> <<>>]

\* C10 witness: the empty report has been sent
C10_Witness ==
    /\ pc = "responded"
    /\ NamesOnlyUnknown
    /\ engines = <<"yahoo", "yahoo">>
    /\ response.status = Ok200
    /\ response.results = <<>>


-----------------------------------------------------------------------------
(* C11 *)

\* C11: the returned report's ip_used mapping has an entry for every requested
\* id that is registered, whether that provider's unit returned results, returned
\* an empty list or raised.
C11_EveryOutcomeHasEgressIdentity ==
    Returned => \A e \in Recognized : DictHas(ip_used_dict, e)

\* what search_sync does keep: ip_used has a provider's key exactly when one of
\* the provider's handled units returned without raising
IpEntryIffUnitReturned ==
    InCall =>
        \A e \in Recognized :
            DictHas(ip_used_dict, e)
                <=> \E k \in HandledOf(e) : futures[log[k].unit].outcome.exc = None

-----------------------------------------------------------------------------
(* C12 *)

\* the candidates of a document in which both the title element and the link
\* element are found, by index, in document order
RECURSIVE CompleteFrom(_, _)
CompleteFrom(html, i) ==
    IF i > Len(html) THEN <<>>
    ELSE IF IsFound(html[i].title) /\ IsFound(html[i].link)
         THEN <<i>> \o CompleteFrom(html, i + 1)
         ELSE CompleteFrom(html, i + 1)

\* C12: for each parser and every document, the parser returns one result for
\* each candidate that has both a title and a link, in document order, and
\* nothing else; a candidate lacking one of them yields no result and does not
\* stop the parsing of the candidates after it.
C12_ExactlyTheCompleteEntries ==
    pc = "parsed" =>
        /\ parsed.exc = None
        /\ Len(parsed.results) = Len(CompleteFrom(doc, 1))
        /\ \A k \in 1..Len(parsed.results) :
              LET i == CompleteFrom(doc, 1)[k]
              IN /\ parsed.results[k].position = i
                 /\ parsed.results[k].title
                        = IF parser = "duckduckgo" THEN Strip(doc[i].title[1]) ELSE doc[i].title[1]

\* what the parsers do keep: a parse that does not raise returns exactly the
\* complete candidates, in order; the Bing and DuckDuckGo parsers never raise
CompleteEntriesUnlessRaised ==
    pc = "parsed" =>
        /\ parser # "google" => parsed.exc = None
        /\ parsed.exc = None =>
              /\ Len(parsed.results) = Len(CompleteFrom(doc, 1))
              /\ \A k \in 1..Len(parsed.results) :
                    parsed.results[k].position = CompleteFrom(doc, 1)[k]

-----------------------------------------------------------------------------
(* C13 *)

\* C13: in one call every requested, registered provider has exactly one unit:
\* its search is invoked once, also when it failed or found nothing and also when
\* its id occurs more than once in the request list.
C13_OneUnitPerProvider ==
    InCall => \A e \in Recognized : Cardinality(UnitsOf(e)) = 1

\* what search_sync does keep: one unit for each occurrence of a registered id
\* in the request list, none added after a failure or an empty result
OneUnitPerOccurrence ==
    InCall =>
        /\ Len(futures) = Len(Validated(engines))
        /\ \A i \in Units : futures[i].engine = Validated(engines)[i]


-----------------------------------------------------------------------------
(* C14 *)

Fetched == fetch_in # NoFetch

\* C14: when the GET times out, cannot connect or is answered with a non-2xx
\* status, _make_request raises nothing and returns no body together with the
\* egress identity; and the GET is issued when the public-IP lookup fails just
\* as it is when the lookup succeeds.
C14_FetchFailuresAreValues ==
    Fetched =>
        /\ fetch_in.fetch.kind \in {"timeout", "connection", "status"} =>
              /\ fetch_out.request.exc = None
              /\ fetch_out.request.body = Absent
              /\ fetch_out.request.ip_used = <<"direct (", get_public_ip(fetch_in.lookup), ")">>
              /\ fetch_out.outcome.exc = None
        /\ fetch_out.request.get = _make_request("ok", fetch_in.fetch, fetch_out.request.user_agent).get
        /\ fetch_in.fetch.kind # "raise" => fetch_out.request.get

\* C14 witness: the lookup raised and the GET timed out; the GET was issued and
\* the fetch returned no body with an identity
C14_Witness ==
    /\ fetch_in.lookup = "exception"
    /\ fetch_in.fetch.kind = "timeout"
    /\ fetch_out.request.get
    /\ fetch_out.request.exc = None
    /\ fetch_out.request.body = Absent
    /\ fetch_out.request.ip_used # <<>>

\* C14 witness of the other half: the lookup failed and the GET brought a page
C14_WitnessLookup ==
    /\ fetch_in.lookup = "non200"
    /\ fetch_in.fetch.kind = "body"
    /\ fetch_out.request.get
    /\ IsFound(fetch_out.request.body)

-----------------------------------------------------------------------------
(* C15 *)

\* C15 as claimed: the egress identity a fetch returns is direct (<ip>) when the
\* public-IP lookup succeeds and is the string unknown when the lookup fails.
C15_UnknownWhenLookupFails ==
    Fetched =>
        fetch_out.request.ip_used
            = IF fetch_in.lookup = "ok" THEN <<"direct (", PublicIp, ")">> ELSE <<"unknown">>

\* C15 as amended: the egress identity is direct (<ip>) when the lookup succeeds
\* and direct (unknown) when it fails (non-200, missing field or exception).
C15_DirectUnknownWhenLookupFails ==
    Fetched =>
        /\ fetch_out.request.ip_used
              = IF fetch_in.lookup = "ok" THEN <<"direct (", PublicIp, ")">>
                ELSE <<"direct (", "unknown", ")">>
        /\ fetch_out.outcome.exc = None => fetch_out.outcome.ip_used = fetch_out.request.ip_used

\* C15 witness: the lookup answered 200 without an ip field
C15_Witness ==
    /\ fetch_in.lookup = "nofield"
    /\ fetch_out.request.ip_used = <<"direct (", "unknown", ")">>
    /\ fetch_out.outcome.ip_used = <<"direct (", "unknown", ")">>

-----------------------------------------------------------------------------
(* C16 *)

\* C16: whatever pool operations were called before, get_random_proxy returns
\* none, the pool holds no proxy and is disabled, and every provider fetch is
\* made without a proxy and reports a direct egress identity.
C16_ProxyPoolIsInert ==
    /\ get_random_proxy(proxy_manager) = Absent
    /\ pool_ret.op = "get_random_proxy" => pool_ret.ret = Absent
    /\ pool_ret.op \in {"_load_proxies", "format_proxy"} => pool_ret.ret = <<>>
    /\ proxy_manager = ProxyManagerInit
    /\ Fetched =>
          /\ fetch_out.request.proxies = Absent
          /\ StartsWith(fetch_out.request.ip_used, "direct (")
          /\ fetch_out.outcome.exc = None => StartsWith(fetch_out.outcome.ip_used, "direct (")

\* C16 witness: the Proxy table holds an active row, a pick returned none and a
\* provider fetched a page directly
C16_Witness ==
    /\ \E row \in TableRows : row.is_active
    /\ pool_ret = [op |-> "get_random_proxy", ret |-> Absent]
    /\ Fetched
    /\ IsFound(fetch_out.request.body)
    /\ fetch_out.outcome.ip_used = <<"direct (", PublicIp, ")">>

\* the same in a search_sync call: every egress identity reported is direct
EveryReportedIdentityIsDirect ==
    \A i \in 1..Len(ip_used_dict) : StartsWith(ip_used_dict[i][2], "direct (")


-----------------------------------------------------------------------------
(* Vocabulary of the job's properties *)

KeyOf(r) == <<r.ip, r.port>>
KeysOf(rs) == {KeyOf(rs[i]) : i \in 1..Len(rs)}
JobDone == jpc = "done"
\* the candidates validation accepted in this run, by index in fetch_all's list
Accepted == {i \in 1..Len(checks) : checks[i] = "valid"}
Fresh(row) == row.is_active /\ row.success_rate = 100

-----------------------------------------------------------------------------
(* C17 *)

\* C17: update_proxy_list returns the number of proxy records it validated and
\* stored in that run; run against an empty table, the table ends with exactly
\* that many rows (4 when 4 of the 5 + 3 candidates are accepted), each active
\* with success rate 100.
C17_CountIsRecordsStored ==
    JobDone =>
        /\ job_ret = <<Cardinality({row \in TableRows : KeyOf(row) \in KeysOf(valid_proxies)})>>
        /\ before = <<>> =>
              /\ Len(proxy_table) = Cardinality(Accepted)
              /\ job_ret = <<Len(proxy_table)>>
              /\ \A row \in TableRows : Fresh(row)

\* what update_proxy_list does keep: it returns the number of candidates
\* validation accepted, which is the number of records stored when no two
\* accepted candidates share an (ip, port); the rows it stored are active, rate 100
CountIsAcceptedCandidates ==
    JobDone =>
        /\ job_ret = <<Cardinality(Accepted)>>
        /\ job_ret = <<Len(valid_proxies)>>
        /\ Cardinality(KeysOf(valid_proxies)) = Len(valid_proxies) =>
              job_ret = <<Cardinality({row \in TableRows : KeyOf(row) \in KeysOf(valid_proxies)})>>
        /\ before = <<>> =>
              /\ Len(proxy_table) = Cardinality(KeysOf(valid_proxies))
              /\ \A row \in TableRows : Fresh(row)

-----------------------------------------------------------------------------
(* C18 *)

\* C18: when a run of update_proxy_list has returned, every candidate that
\* validation accepted has a row in the table under its (ip, port), active and
\* with success rate 100, whatever a row with that key held before the run.
C18_AcceptedAreStoredFresh ==
    JobDone =>
        \A i \in Accepted :
            /\ \E row \in TableRows : KeyOf(row) = KeyOf(proxies[i])
            /\ \A row \in TableRows : KeyOf(row) = KeyOf(proxies[i]) => Fresh(row)

\* C18 witness: the run accepted a candidate whose row was inactive with a lower
\* rate and another protocol before, and the row is now active with rate 100
C18_Witness ==
    /\ JobDone
    /\ \E i \in Accepted, k \in 1..Len(before) :
          /\ KeyOf(before[k]) = KeyOf(proxies[i])
          /\ ~before[k].is_active
          /\ before[k].success_rate < 100
          /\ before[k].protocol # proxies[i].protocol
          /\ KeyOf(proxy_table[k]) = KeyOf(proxies[i])
          /\ Fresh(proxy_table[k])

-----------------------------------------------------------------------------
(* C19 *)

\* C19: the table never holds two rows with the same (ip, port), whatever the
\* runs before, also when a run's candidates repeat a pair or name a stored one.
C19_OneRowPerIpPort ==
    \A i, j \in 1..Len(proxy_table) :
        i # j => KeyOf(proxy_table[i]) # KeyOf(proxy_table[j])

\* C19 witness: the second run accepted the same pair twice, the pair was stored
\* already, and the table holds it once
C19_Witness ==
    /\ JobDone
    /\ runs = 2
    /\ Len(valid_proxies) = 2
    /\ KeyOf(valid_proxies[1]) = KeyOf(valid_proxies[2])
    /\ KeyOf(valid_proxies[1]) \in KeysOf(before)
    /\ Cardinality({k \in 1..Len(proxy_table) : KeyOf(proxy_table[k]) = KeyOf(valid_proxies[1])}) = 1

-----------------------------------------------------------------------------
(* C20 *)

InRun == jpc \in {"validating", "done", "raised"}

\* C20: a source whose fetch or parse failed contributes an empty list and
\* fetch_all returns the other source's candidates; the run goes on to validate
\* and store them, and raises only when an upsert fails.
C20_SourceFailureIsEmptyList ==
    InRun =>
        /\ failed[1] => parts[1] = <<>> /\ proxies = parts[2]
        /\ failed[2] => parts[2] = <<>> /\ proxies = parts[1]
        /\ Len(checks) = Len(parts[1]) + Len(parts[2])
        /\ jpc = "raised" => valid_proxies # <<>>
        /\ JobDone => \A i \in Accepted : KeyOf(proxies[i]) \in KeysOf(proxy_table)

\* C20 witness: the first source failed, the second listed a candidate, it was
\* accepted and stored, and the run returned 1
C20_Witness ==
    /\ JobDone
    /\ failed = <<TRUE, FALSE>>
    /\ Len(parts[2]) = 1
    /\ Accepted = {1}
    /\ job_ret = <<1>>
    /\ KeyOf(parts[2][1]) \in KeysOf(proxy_table)

\* C20 witness of the other source: geonode's answer failed, the table of
\* free-proxy-list.net was used
C20_WitnessSecond ==
    /\ JobDone
    /\ failed = <<FALSE, TRUE>>
    /\ Len(parts[1]) = 1
    /\ Accepted = {1}
    /\ KeyOf(parts[1][1]) \in KeysOf(proxy_table)


-----------------------------------------------------------------------------
(* C21 *)

\* C21: no step of a refresh run or of a search's status hook removes a row of
\* the Proxy table; a row whose (ip, port) validation did not accept in the
\* current run keeps every field, and the set of stored (ip, port) only grows.
C21_RecordsNeverDeleted ==
    [][/\ Len(proxy_table') >= Len(proxy_table)
       /\ KeysOf(proxy_table) \subseteq KeysOf(proxy_table')
       /\ \A k \in 1..Len(proxy_table) :
             /\ KeyOf(proxy_table'[k]) = KeyOf(proxy_table[k])
             /\ (jpc # "validating" \/ KeyOf(proxy_table[k]) \notin KeysOf(valid_proxies)) =>
                   proxy_table'[k] = proxy_table[k]]_vars

\* C21 witness: a run that accepted one pair has returned; the inactive row of
\* another pair stored before is as it was
C21_Witness ==
    /\ JobDone
    /\ Len(before) = 2
    /\ ~before[1].is_active
    /\ KeyOf(before[1]) \notin KeysOf(valid_proxies)
    /\ valid_proxies # <<>>
    /\ proxy_table[1] = before[1]
    /\ Len(proxy_table) = 2

\* C21 witness of the growth: the accepted pair was not stored before, its row
\* was added behind the stored one
C21_WitnessGrows ==
    /\ JobDone
    /\ Len(before) = 1
    /\ Len(proxy_table) = 2
    /\ proxy_table[1] = before[1]
    /\ KeyOf(proxy_table[2]) \in KeysOf(valid_proxies)

\* C21 witness of the searches: the status hook was called on a stored row while
\* a run was validating
C21_WitnessHook ==
    /\ jpc = "validating"
    /\ pool_ret.op = "update_proxy_status"
    /\ proxy_table # <<>>
    /\ proxy_table = before


-----------------------------------------------------------------------------
(* C22 *)

\* the part of a string before the first occurrence of a token
RECURSIVE UpTo(_, _)
UpTo(s, tok) ==
    IF s = <<>> \/ s[1] = tok THEN <<>> ELSE <<s[1]>> \o UpTo(Tail(s), tok)

\* the url the claim gives for a raw link of a provider
Normalised(provider, raw) ==
    CASE provider = "google" ->
            IF StartsWith(raw, "/url?q=") THEN UpTo(Tail(raw), "&") ELSE raw
      [] provider = "duckduckgo" ->
            LET text == Strip(IF raw = NoneUrl THEN <<>> ELSE raw)
            IN IF StartsWith(text, "http://") \/ StartsWith(text, "https://")
               THEN text ELSE <<"https://">> \o text
      [] OTHER -> raw

\* C22: in what a parser returns, the url of a result is: for Google, the real
\* url of a link /url?q=<real-url>&...; for DuckDuckGo, the link text with
\* https:// put before it when it has no http:// or https:// scheme; in every
\* other case, the link as it is in the document.
C22_UrlNormalisation ==
    (pc = "parsed" /\ parsed.exc = None) =>
        \A k \in 1..Len(parsed.results) :
            parsed.results[k].url
                = Normalised(parser, doc[parsed.results[k].position].link[1])

\* C22 witness: Google's parser unwrapped a redirect link
C22_Witness ==
    /\ pc = "parsed"
    /\ parser = "google"
    /\ Len(parsed.results) = 1
    /\ doc[parsed.results[1].position].link[1]
          = <<"/url?q=", "https://", "b.org/x", "&", "sa=U">>
    /\ parsed.results[1].url = <<"https://", "b.org/x">>

\* C22 witness for DuckDuckGo: a link text without scheme got the prefix, one
\* with http:// did not
C22_WitnessDdg ==
    /\ pc = "parsed"
    /\ parser = "duckduckgo"
    /\ Len(parsed.results) = 2
    /\ doc[1].link[1] = <<" ", "c.net/y">>
    /\ parsed.results[1].url = <<"https://", "c.net/y">>
    /\ parsed.results[2].url = <<"http://", "d.io", "&", "x=1">>


-----------------------------------------------------------------------------
(* C23 *)

\* static fetch responses: one response per registered provider
StaticResponses == [RegisteredSet -> Fetches]

\* every unit that has ended met its provider's response in R
MetBy(R) ==
    \A i \in Units :
        futures[i].state = "done" =>
            \E ua \in UserAgents :
                futures[i].outcome = search(futures[i].engine, ipify, R[futures[i].engine], ua)

\* the (title, url, description, rank) sequence of a result list
Shown(results) ==
    [k \in 1..Len(results) |->
        <<results[k].title, results[k].url, results[k].description, results[k].position>>]

\* C23: when every provider's fetch meets the same static response, the result
\* sequence the report has for a provider is the one its parser gives for that
\* response, whichever user agent each fetch picked, whatever the public-IP
\* lookup answered and in whatever order the units completed: two calls agree.
C23_SearchIsDeterministic ==
    Returned =>
        \A R \in StaticResponses :
            MetBy(R) =>
                \A e \in Recognized, ua \in UserAgents, lookup \in Lookups :
                    Shown(DictGet(results_dict, e)) = Shown(search(e, lookup, R[e], ua).results)

\* C23 witness: three providers met the same page, the last dispatched unit was
\* handled first, and each provider's slot holds its parse of the page
C23_Witness ==
    /\ Returned
    /\ Len(futures) = 3
    /\ log[1].unit = 3
    /\ \A i \in Units : futures[i].fetched = "body" /\ futures[i].outcome.results # <<>>
    /\ MetBy([e \in RegisteredSet |-> [kind |-> "body", html |-> DocA]])


-----------------------------------------------------------------------------
(* C24 *)

\* the orders in which the dispatched units can complete
Orders == {o \in [Units -> Units] : \A i, j \in Units : o[i] = o[j] => i = j}

\* where the sink failed when unit i was handled
FailOf(i) == log[CHOOSE k \in 1..Len(log) : log[k].unit = i].failAt

\* the report search_sync builds when the units, with the outcomes and sink
\* failures they had, are handled in order o (its first k)
RECURSIVE ReplayIn(_, _)
ReplayIn(o, k) ==
    IF k = 0 THEN Initialised
    ELSE ProcessFuture(ReplayIn(o, k - 1), query, save_to_db, futures[o[k]].engine,
                       futures[o[k]].outcome, FailOf(o[k]))

\* C24: for the request and the outcome each dispatched unit had, every order of
\* completion gives the results, ip_used and errors value the report has for
\* every provider.
C24_ReportIndependentOfOrder ==
    Returned =>
        \A o \in Orders : \A e \in Recognized :
            Slot(ReplayIn(o, Len(futures)), e) = Slot(Report, e)

\* what search_sync does keep: the same when no provider is named twice
C24_WhenNoIdRepeated ==
    (Returned /\ NoRepeatedId) =>
        \A o \in Orders : \A e \in Recognized :
            Slot(ReplayIn(o, Len(futures)), e) = Slot(Report, e)

-----------------------------------------------------------------------------
(* C25 *)

\* C25: in the returned report the keys of results, of ip_used and of errors
\* are in the order of the validated request list, not in the order in which
\* the units completed.
C25_KeyOrderIsRequestOrder ==
    Returned =>
        /\ DictKeys(results_dict) = DictKeys(Initialised.results)
        /\ DictKeys(errors_dict) = DictKeys(Initialised.results)
        /\ \A i, j \in 1..Len(ip_used_dict) :
              i < j =>
                  \E a, b \in 1..Len(results_dict) :
                      /\ a < b
                      /\ results_dict[a][1] = ip_used_dict[i][1]
                      /\ results_dict[b][1] = ip_used_dict[j][1]

\* what search_sync does keep: results and errors have the request's order, and
\* ip_used has the order in which the providers' units first returned
KeyOrderOfResultsAndErrors ==
    Returned =>
        /\ DictKeys(results_dict) = DictKeys(Initialised.results)
        /\ DictKeys(errors_dict) = DictKeys(Initialised.results)
        /\ \A i, j \in 1..Len(ip_used_dict) :
              i < j =>
                  \E a, b \in 1..Len(log) :
                      /\ a < b
                      /\ futures[log[a].unit].engine = ip_used_dict[i][1]
                      /\ futures[log[a].unit].outcome.exc = None
                      /\ futures[log[b].unit].engine = ip_used_dict[j][1]


-----------------------------------------------------------------------------
(* C26 *)

\* C26: a call of search_sync whose units all end, as their fetch timeouts make
\* them, returns its report: it does not wait forever on finished units.
C26_SearchSyncTerminates == (pc = "running") ~> (pc = "returned")

\* C26 witness: the call returned after a unit raised, a unit found nothing and
\* a unit returned results
C26_Witness ==
    /\ Returned
    /\ Len(futures) = 3
    /\ futures[1].outcome.exc # None
    /\ futures[2].outcome.exc = None /\ futures[2].outcome.results = <<>>
    /\ futures[3].outcome.results # <<>>
    /\ \A i \in Units : futures[i].state = "done" /\ futures[i].handled


-----------------------------------------------------------------------------
(* C27 *)

\* the sink before and after the k-th handled future, and the rows that future's
\* provider has to write
DbBefore(k) == Replay(k - 1, ActualOuts, save_to_db, ActualFails).db
DbAfter(k) == Replay(k, ActualOuts, save_to_db, ActualFails).db
RowsDue(k) ==
    LET out == futures[log[k].unit].outcome
    IN IF save_to_db /\ out.exc = None /\ out.results # <<>>
       THEN Rows(NextId(DbBefore(k)), query, futures[log[k].unit].engine, out.results)
       ELSE <<>>

\* C27: handling a provider's future leaves the rows written before as they
\* are and adds either all of that provider's rows (its query row and every
\* result row) or none of them, also when the sink fails; a failure does not
\* keep a provider handled later from writing its rows.
C27_SaveIsAllOrNone ==
    InCall =>
        \A k \in 1..Len(log) :
            /\ SubSeq(DbAfter(k), 1, Len(DbBefore(k))) = DbBefore(k)
            /\ DbAfter(k) = DbBefore(k) \/ DbAfter(k) = DbBefore(k) \o RowsDue(k)

\* what search_sync does keep: rows written are never removed or altered, a
\* provider writes a prefix of its rows (all of them when the sink does not
\* fail), whatever happened to the providers handled before it
SaveIsAppendOnly ==
    InCall =>
        /\ DbAfter(Len(log)) = db
        /\ \A k \in 1..Len(log) :
              /\ SubSeq(DbAfter(k), 1, Len(DbBefore(k))) = DbBefore(k)
              /\ \E n \in 0..Len(RowsDue(k)) :
                    DbAfter(k) = DbBefore(k) \o SubSeq(RowsDue(k), 1, n)
              /\ log[k].failAt = NoFail => DbAfter(k) = DbBefore(k) \o RowsDue(k)

-----------------------------------------------------------------------------
(* C28 *)

\* the claim's order of preference, and the providers of a report that have results
FallbackOrder == <<"google", "bing", "duckduckgo">>
ListOf(report, e) == Get(report.results, e, <<>>)
HasResults(report) == {i \in 1..Len(FallbackOrder) : ListOf(report, FallbackOrder[i]) # <<>>}
FirstWithResults(report) ==
    FallbackOrder[CHOOSE i \in HasResults(report) : \A j \in HasResults(report) : i <= j]
RECURSIVE Listing(_, _)
Listing(list, n) ==
    IF n = 0 THEN <<>> ELSE Listing(list, n - 1) \o ResultLines(n, list[n])
Called == formatted # NotYet

\* C28: perform_search_if_needed formats the results of exactly one provider of
\* the report, the first of google, bing, duckduckgo whose list is not empty, and
\* of it the first 3 results at most, in rank order; when the three lists are
\* empty it returns the fixed note; when the query needs no search it returns
\* the empty string and search_sync was not called.
C28_FallbackPriority ==
    Called =>
        IF detect_search_needed(query)
        THEN /\ sync_calls = 1
             /\ IF HasResults(search_results) = {}
                THEN formatted = NoResultsNote
                ELSE LET list == ListOf(search_results, FirstWithResults(search_results))
                     IN formatted = SearchResultsHeader
                                      \o Listing(list, IF Len(list) < 3 THEN Len(list) ELSE 3)
        ELSE /\ formatted = <<>>
             /\ sync_calls = 0
             /\ search_results = NoReport

\* google has nothing, bing more than three results, duckduckgo some: the text
\* lists three results of bing
C28_Witness ==
    /\ Called
    /\ ListOf(search_results, "google") = <<>>
    /\ Len(ListOf(search_results, "bing")) = 4
    /\ ListOf(search_results, "duckduckgo") # <<>>
    /\ formatted = SearchResultsHeader \o Listing(ListOf(search_results, "bing"), 3)

C28_WitnessNote ==
    /\ Called
    /\ sync_calls = 1
    /\ HasResults(search_results) = {}
    /\ formatted = NoResultsNote

C28_WitnessNoSearch ==
    /\ Called
    /\ query = <<"h", "i">>
    /\ sync_calls = 0

C28_WitnessSubstring ==
    /\ Called
    /\ query = <<"r", "e", "f", "i", "n", "d">>
    /\ sync_calls = 1

-----------------------------------------------------------------------------
(* C29 *)

\* the order in which the units of this call ended, as the as_completed loop saw them
CompletionOrder == [k \in 1..Len(log) |-> log[k].unit]
\* the async entry point on this call's request and this call's outcomes, with a
\* sink that accepts every write and held nothing before
AsyncRun == search_async(query, engines, ActualOuts, CompletionOrder, <<>>, NoFail)
AsyncQueryRows == SelectSeq(AsyncRun.db, LAMBDA row : row.kind = "query")

\* C29: for the same request and the same outcomes of the providers, the async
\* entry point returns the result lists search_sync returns, does not fail
\* because a provider raised, and writes to the sink only when saving is enabled
\* and only for providers with a result.
C29_AsyncFollowsSync ==
    Returned =>
        /\ AsyncRun.exc = None
        /\ AsyncRun.results = results_dict
        /\ ~save_to_db => AsyncRun.db = <<>>
        /\ \A k \in 1..Len(AsyncQueryRows) :
              \E i \in Units : /\ futures[i].engine = AsyncQueryRows[k].engine
                               /\ futures[i].outcome.results # <<>>

\* What holds of the async entry point: it returns only when no engine of the
\* request is registered; otherwise it fails, with the exception of the first
\* provider that raised or, when none raised, with the TypeError of subscripting
\* the list of the (results, ip_used) tuple, after one query row was written
\* whatever the toggle says.
AsyncFailsWheneverAnEngineIsValid ==
    Returned =>
        IF Validated(engines) = <<>>
        THEN AsyncRun = [exc |-> None, results |-> <<>>, db |-> <<>>]
        ELSE IF \E i \in Units : futures[i].outcome.exc # None
        THEN /\ AsyncRun.exc \in {futures[i].outcome.exc : i \in Units} \ {None}
             /\ AsyncRun.db = <<>>
        ELSE /\ AsyncRun.exc = ListSubscriptError
             /\ AsyncRun.db = <<QueryRow(1, query, Validated(engines)[1])>>
             /\ async_search_view(query, engines, ActualOuts, CompletionOrder, <<>>, NoFail).status
                    = ServerError500

-----------------------------------------------------------------------------
(* C30 *)

\* the exception texts of the units of provider e
ExcTexts(e) == {futures[i].outcome.exc : i \in UnitsOf(e)} \ {None}
SlotShape(e) ==
    LET slot == Slot(Report, e)
    IN \/ slot.error = None
       \/ slot.error \in ExcTexts(e) /\ slot.results = <<>>
       \/ slot.error = NotSaved /\ slot.results # <<>>

\* C30: in a returned report every slot has no error, or the exception text of
\* the provider's unit with an empty result list, or the 'Results found but not
\* saved' note with a non-empty result list; an exception text never comes with
\* a non-empty list.
C30_SlotShapes ==
    Returned => \A e \in KeySet(results_dict) : SlotShape(e)

\* It holds of the calls in which no id is repeated, and there the three shapes occur.
C30_WhenNoIdRepeated == NoRepeatedId => C30_SlotShapes
C30_ShapesOccur ==
    /\ Returned
    /\ NoRepeatedId
    /\ \E e \in KeySet(results_dict) :
          Slot(Report, e).error \in ExcTexts(e) /\ Slot(Report, e).results = <<>>
    /\ \E e \in KeySet(results_dict) :
          Slot(Report, e).error = NotSaved /\ Slot(Report, e).results # <<>>
    /\ \E e \in KeySet(results_dict) :
          Slot(Report, e).error = None /\ Slot(Report, e).results # <<>>

=============================================================================
